---- MODULE Spec2Model ----
(***************************************************************************)
(* Model of the user-management service 114windd/restapi: the retry       *)
(* engine (internal/retry), the data-access layer (internal/database),    *)
(* the business service (internal/service) and the two adapters           *)
(* (internal/api handlers, internal/grpc server).                          *)
(*                                                                         *)
(* Durations are counted in milliseconds.  An error value is a record     *)
(*   [text |-> the tokens of err.Error(), is |-> the sentinels for which  *)
(*    errors.Is(err, sentinel) holds]                                     *)
(* so that strings.Contains and errors.Is are computed as the code does.  *)
(***************************************************************************)
EXTENDS Integers, Sequences, FiniteSets, TLC

VARIABLES db, req, clock

vars == <<db, req, clock>>

(***************************************************************************)
(* Bounds of the model.                                                    *)
(***************************************************************************)
MaxPolicyAttempts == 4
MaxID == 2

(***************************************************************************)
(* Error values.                                                           *)
(***************************************************************************)
NilErr == [text |-> <<>>, is |-> {}]

\* gorm.ErrRecordNotFound
ErrRecordNotFound == [text |-> <<"record not found">>, is |-> {"ErrRecordNotFound"}]

\* the PostgreSQL unique-index violation (SQLSTATE 23505)
ErrDuplicateKey ==
    [text |-> <<"ERROR:", "duplicate key", "value violates unique constraint">>, is |-> {}]

\* a connectivity failure of the store
ErrConnRefused == [text |-> <<"dial tcp:", "connection refused">>, is |-> {}]

\* strings.Contains(err.Error(), tok)
Contains(err, tok) == \E i \in 1..Len(err.text) : err.text[i] = tok

\* errors.Is(err, sentinel)
ErrorsIs(err, sentinel) == sentinel \in err.is

\* fmt.Errorf("operation '%s' failed after %d attempts: %w", operation, n, lastErr)
Errorf(operation, n, lastErr) ==
    [text |-> <<"operation", operation, "failed after", ToString(n), "attempts:">>
                \o (IF lastErr = NilErr THEN <<"%!w(<nil>)">> ELSE lastErr.text),
     is |-> lastErr.is]

(***************************************************************************)
(* internal/retry: RetryConfig, DefaultRetryConfig, calculateDelay and     *)
(* ExecuteWithRetry.  One run of ExecuteWithRetry is the record            *)
(*   operation, config : the arguments                                     *)
(*   status    : "running" (about to call fn), "sleeping" (in time.Sleep), *)
(*               "returned"                                                *)
(*   attempt   : the loop variable                                         *)
(*   lastErr   : the variable lastErr                                      *)
(*   calls     : invocations of fn so far                                  *)
(*   errs      : what each invocation of fn returned, in order             *)
(*   sleeps    : the delays slept so far                                   *)
(*   level     : the level of the logger, logger.Log.Level                 *)
(*   events    : the log entries written so far,                           *)
(*               <<attempt, message, operation>>                           *)
(*   result    : the returned error once status = "returned"               *)
(***************************************************************************)
Millisecond == 1
Second == 1000

\* a policy with more attempts than DefaultRetryConfig gives
DefaultRetryConfigFive ==
    [MaxAttempts |-> 5, BaseDelay |-> 100 * Millisecond, MaxDelay |-> 2 * Second]

DefaultRetryConfig ==
    [MaxAttempts |-> 3, BaseDelay |-> 100 * Millisecond, MaxDelay |-> 2 * Second]

RECURSIVE Pow2(_)
Pow2(n) == IF n <= 0 THEN 1 ELSE 2 * Pow2(n - 1)

\* a time.Duration is an int64 count of nanoseconds
NanosPerMilli == 1000000

\* float64(baseDelay) * math.Pow(2, attempt-1) is 2^63 ns or more, beyond the
\* largest time.Duration (for baseDelay * NanosPerMilli below 2^31, so that
\* the product is below 2^63 whenever attempt - 1 < 33)
DelayOverflows(attempt, baseDelay) ==
    LET e == attempt - 1
    IN  /\ baseDelay > 0
        /\ \/ e >= 63
           \/ e >= 33 /\ baseDelay * NanosPerMilli >= Pow2(63 - e)

\* baseDelay * 2^(attempt-1) > maxDelay, for a product within the range
DelayExceeds(attempt, baseDelay, maxDelay) ==
    LET e == attempt - 1
    IN  /\ baseDelay > 0
        /\ \/ e >= 31
           \/ Pow2(e) > maxDelay \div baseDelay

\* what the conversion of a float64 beyond the range of int64 gives, which the
\* language leaves to the implementation: the smallest int64 ("indefinite", as on
\* amd64) or the largest ("saturated", as on arm64)
Conversions == {"indefinite", "saturated"}

\* time.Duration(math.MinInt64), held as -1: time.Sleep returns at once for
\* every negative duration
MinDuration == -1

\* a backoff that doubles one attempt late
calculateDelayLate(attempt, baseDelay, maxDelay, conv) ==
    IF DelayOverflows(attempt - 1, baseDelay)
    THEN IF conv = "saturated" THEN maxDelay ELSE MinDuration
    ELSE IF DelayExceeds(attempt - 1, baseDelay, maxDelay) THEN maxDelay
    ELSE baseDelay * Pow2(attempt - 2)

calculateDelay(attempt, baseDelay, maxDelay, conv) ==
    IF DelayOverflows(attempt, baseDelay)
    THEN IF conv = "saturated" THEN maxDelay ELSE MinDuration
    ELSE IF DelayExceeds(attempt, baseDelay, maxDelay) THEN maxDelay
    ELSE baseDelay * Pow2(attempt - 1)

\* a loop that stops one attempt short
LoopConditionShort(attempt, config) == attempt < config.MaxAttempts

\* the loop condition of line 35
LoopCondition(attempt, config) == attempt <= config.MaxAttempts

\* the test of line 52, one attempt early
IsLastAttemptEarly(attempt, config) == attempt + 1 >= config.MaxAttempts

\* the test of line 52
IsLastAttempt(attempt, config) == attempt = config.MaxAttempts

\* a wrapper formatted with %v: the text of lastErr without its identity
ExhaustedErrorOpaque(operation, config, lastErr) ==
    [Errorf(operation, config.MaxAttempts, lastErr) EXCEPT !.is = {}]

\* the error returned at line 68
ExhaustedError(operation, config, lastErr) ==
    Errorf(operation, config.MaxAttempts, lastErr)

\* the levels of logrus, as it numbers them
ErrorLevel == 2
WarnLevel == 3
InfoLevel == 4
DebugLevel == 5

\* the level each message of ExecuteWithRetry is logged at: lines 37, 44, 53, 63
LevelOf(msg) ==
    CASE msg = "Executing operation"                -> DebugLevel
      [] msg = "Operation succeeded after retry"    -> InfoLevel
      [] msg = "Operation failed, retrying"         -> WarnLevel
      [] OTHER                                      -> ErrorLevel

\* LogRetry(operation, attempt, maxAttempts) and the message logged with it
LogRetry(operation, attempt, msg) == <<attempt, msg, operation>>

\* a logger that writes every entry twice
LoggedTwice(events, level, entry) ==
    IF level >= LevelOf(entry[2]) THEN events \o <<entry, entry>> ELSE events

\* entry.Debug/Info/Warn/Error: the entry is written when the logger's level
\* enables the level of the message
Logged(events, level, entry) ==
    IF level >= LevelOf(entry[2]) THEN Append(events, entry) ELSE events

\* entry of ExecuteWithRetry up to the first test of the loop condition
ExecBegin(operation, config) ==
    LET enters == LoopCondition(1, config)
    IN  [operation |-> operation, config |-> config,
         status |-> IF enters THEN "running" ELSE "returned",
         attempt |-> 1, lastErr |-> NilErr, calls |-> 0, errs |-> <<>>,
         sleeps |-> <<>>, level |-> DebugLevel, events |-> <<>>,
         result |-> IF enters THEN NilErr
                    ELSE ExhaustedError(operation, config, NilErr)]

\* a test that holds at the first attempt too
IsAfterRetryAlways(attempt) == attempt >= 1

\* the test of line 43
IsAfterRetry(attempt) == attempt > 1

\* one pass of the loop body, lines 36-63, with err the value fn() returned
ExecAttempt(rs, err) ==
    LET ev0 == Logged(rs.events, rs.level,
                      LogRetry(rs.operation, rs.attempt, "Executing operation"))
        called == [rs EXCEPT !.calls = @ + 1, !.errs = Append(@, err)]
    IN  IF err = NilErr
        THEN [called EXCEPT
                !.status = "returned", !.result = NilErr,
                !.events = IF IsAfterRetry(rs.attempt)
                           THEN Logged(ev0, rs.level,
                                       LogRetry(rs.operation, rs.attempt,
                                                "Operation succeeded after retry"))
                           ELSE ev0]
        ELSE IF IsLastAttempt(rs.attempt, rs.config)
        THEN [called EXCEPT
                !.status = "returned", !.lastErr = err,
                !.result = ExhaustedError(rs.operation, rs.config, err),
                !.events = Logged(ev0, rs.level,
                                  LogRetry(rs.operation, rs.attempt,
                                           "Operation failed after all retries"))]
        ELSE [called EXCEPT
                !.status = "sleeping", !.lastErr = err,
                !.events = Logged(ev0, rs.level,
                                  LogRetry(rs.operation, rs.attempt,
                                           "Operation failed, retrying"))]

\* time.Sleep(delay) of line 65 returns; attempt++ and the loop condition
ExecWake(rs, conv) ==
    LET next == rs.attempt + 1
        slept == [rs EXCEPT
                    !.sleeps = Append(@, calculateDelay(rs.attempt, rs.config.BaseDelay,
                                                        rs.config.MaxDelay, conv)),
                    !.attempt = next]
    IN  IF LoopCondition(next, rs.config)
        THEN [slept EXCEPT !.status = "running"]
        ELSE [slept EXCEPT !.status = "returned",
                           !.result = ExhaustedError(rs.operation, rs.config, rs.lastErr)]

\* the state of a request that is not inside ExecuteWithRetry
NoExec ==
    [operation |-> "", config |-> DefaultRetryConfig, status |-> "none",
     attempt |-> 0, lastErr |-> NilErr, calls |-> 0, errs |-> <<>>,
     sleeps |-> <<>>, level |-> DebugLevel, events |-> <<>>, result |-> NilErr]

(***************************************************************************)
(* pkg/models and the users table.  A stored row is a models.User without *)
(* UpdatedAt, created being CreatedAt; the table is the sequence of its   *)
(* rows, d.users, and d.nextID is the next value of the identifier        *)
(* sequence.                                                                *)
(***************************************************************************)
\* the zero value time.Time{}: an instant before every instant of the clock
ZeroTime == -1

\* the zero value models.User{}
NoUser == [id |-> 0, name |-> "", email |-> "", password |-> <<>>, created |-> ZeroTime]

\* bcrypt.GenerateFromPassword: a digest that is never the plaintext
GenerateFromPassword(password) == <<"$2a$10$">> \o password

\* bcrypt.CompareHashAndPassword(hash, password) = nil
CompareHashAndPassword(hash, password) == hash = GenerateFromPassword(password)

EmptyDb == [users |-> <<>>, nextID |-> 1]

Rows(d) == {d.users[i] : i \in 1..Len(d.users)}

HasID(d, id) == \E u \in Rows(d) : u.id = id

RowByID(d, id) == CHOOSE u \in Rows(d) : u.id = id

RowByEmail(d, email) ==
    d.users[CHOOSE i \in 1..Len(d.users) :
                /\ d.users[i].email = email
                /\ \A j \in 1..(i - 1) : d.users[j].email # email]

\* a table without the unique index
NoUniqueIndex(d, u) == FALSE

\* the unique index on users.email rejects the row u
UniqueViolation(d, u) == \E v \in Rows(d) : v.id # u.id /\ v.email = u.email

(***************************************************************************)
(* The persistence calls of internal/database.  env is what the store     *)
(* does with the statement:                                                *)
(*   "ok"          it is executed and answered                            *)
(*   "unavailable" it is not executed, the call fails (connection lost)   *)
(*   "lost_ack"    it is executed and committed, the answer is lost and   *)
(*                 the call fails (writes only)                            *)
(* Each returns [err, db, user, list]: the error, the store afterwards,   *)
(* the struct the call filled in, and the slice for Find.                  *)
(***************************************************************************)
DbResult(err, d, user, list) == [err |-> err, db |-> d, user |-> user, list |-> list]

\* db.Create(user).Error, user.ID = 0
DbCreate(d, user, env) ==
    IF env = "unavailable" THEN DbResult(ErrConnRefused, d, user, <<>>)
    ELSE IF UniqueViolation(d, user) THEN DbResult(ErrDuplicateKey, d, user, <<>>)
    ELSE LET row == [user EXCEPT !.id = d.nextID]
             d2 == [users |-> Append(d.users, row), nextID |-> d.nextID + 1]
         IN  IF env = "lost_ack" THEN DbResult(ErrConnRefused, d2, user, <<>>)
             ELSE DbResult(NilErr, d2, row, <<>>)

\* db.First(&user, id).Error
DbFirstByID(d, id, env) ==
    IF env = "unavailable" THEN DbResult(ErrConnRefused, d, NoUser, <<>>)
    ELSE IF HasID(d, id) THEN DbResult(NilErr, d, RowByID(d, id), <<>>)
    ELSE DbResult(ErrRecordNotFound, d, NoUser, <<>>)

\* db.Where("email = ?", email).First(&user).Error
DbFirstByEmail(d, email, env) ==
    IF env = "unavailable" THEN DbResult(ErrConnRefused, d, NoUser, <<>>)
    ELSE IF \E u \in Rows(d) : u.email = email
         THEN DbResult(NilErr, d, RowByEmail(d, email), <<>>)
    ELSE DbResult(ErrRecordNotFound, d, NoUser, <<>>)

\* db.Save(user).Error, user.ID # 0: UPDATE of every column WHERE id = user.ID,
\* and an INSERT .. ON CONFLICT DO UPDATE when the UPDATE touched no row
DbSave(d, user, env) ==
    IF env = "unavailable" THEN DbResult(ErrConnRefused, d, user, <<>>)
    ELSE IF UniqueViolation(d, user) THEN DbResult(ErrDuplicateKey, d, user, <<>>)
    ELSE LET d2 == IF HasID(d, user.id)
                   THEN [d EXCEPT !.users =
                            [i \in 1..Len(d.users) |->
                                IF d.users[i].id = user.id THEN user ELSE d.users[i]]]
                   ELSE [d EXCEPT !.users = Append(d.users, user)]
         IN  IF env = "lost_ack" THEN DbResult(ErrConnRefused, d2, user, <<>>)
             ELSE DbResult(NilErr, d2, user, <<>>)

\* a delete that leaves the row in the table
DbDeleteSoft(d, id, env) ==
    IF env = "ok" THEN DbResult(NilErr, d, NoUser, <<>>)
    ELSE DbResult(ErrConnRefused, d, NoUser, <<>>)

\* a delete that reports record-not-found when no row matches
DbDeleteStrict(d, id, env) ==
    IF env = "unavailable" THEN DbResult(ErrConnRefused, d, NoUser, <<>>)
    ELSE IF ~HasID(d, id) THEN DbResult(ErrRecordNotFound, d, NoUser, <<>>)
    ELSE LET d2 == [d EXCEPT !.users = SelectSeq(d.users, LAMBDA u : u.id # id)]
         IN  IF env = "lost_ack" THEN DbResult(ErrConnRefused, d2, NoUser, <<>>)
             ELSE DbResult(NilErr, d2, NoUser, <<>>)

\* db.Delete(&models.User{}, id).Error: no error when no row matches
DbDelete(d, id, env) ==
    IF env = "unavailable" THEN DbResult(ErrConnRefused, d, NoUser, <<>>)
    ELSE LET d2 == [d EXCEPT !.users = SelectSeq(d.users, LAMBDA u : u.id # id)]
         IN  IF env = "lost_ack" THEN DbResult(ErrConnRefused, d2, NoUser, <<>>)
             ELSE DbResult(NilErr, d2, NoUser, <<>>)

\* the answers of the store to a SELECT without ORDER BY: "ok" gives the rows
\* in creation order, "scan<k>" in the k-th other order
RECURSIVE Factorial(_)
Factorial(n) == IF n <= 1 THEN 1 ELSE n * Factorial(n - 1)

ScanEnvs == {"scan" \o ToString(k) : k \in 1..(Factorial(MaxID) - 1)}

ScanNumber(env) ==
    IF env \in ScanEnvs
    THEN CHOOSE k \in 1..(Factorial(MaxID) - 1) : env = "scan" \o ToString(k)
    ELSE 0

\* the k-th order of the rows t, k read in the factorial number system
RECURSIVE ScanOrder(_, _)
ScanOrder(t, k) ==
    IF Len(t) = 0 THEN <<>>
    ELSE LET i == (k % Len(t)) + 1
             rest == [j \in 1..(Len(t) - 1) |-> IF j < i THEN t[j] ELSE t[j + 1]]
         IN  <<t[i]>> \o ScanOrder(rest, k \div Len(t))

\* db.Find(&users).Error: SELECT * FROM users, in the order the store scans
DbFind(d, env) ==
    IF env = "unavailable" THEN DbResult(ErrConnRefused, d, NoUser, <<>>)
    ELSE DbResult(NilErr, d, NoUser, ScanOrder(d.users, ScanNumber(env)))

(***************************************************************************)
(* Requests.  args = [id, idok, name, email, password, auth]: idok is     *)
(* whether the :id path parameter is a number (HTTP), auth is the state   *)
(* of the Authorization header, "missing", "invalid" (not signed with the *)
(* server's key), "expired" or "valid" (HTTP).                             *)
(* A response is [status, code, error, message, user, users, token]:      *)
(* the HTTP status (0 on the RPC surface), the RPC code ("" on the HTTP   *)
(* surface), the error text, and the payload.                              *)
(***************************************************************************)
StatusOK == 200
StatusCreated == 201
StatusBadRequest == 400
StatusUnauthorized == 401
StatusNotFound == 404
StatusConflict == 409
StatusInternalServerError == 500

MinPasswordLen == 6

\* a serialisation that keeps the Password field
UserViewWithPassword(u) ==
    [id |-> u.id, name |-> u.name, email |-> u.email, password |-> u.password]

\* the serialised user: json:"-" drops Password, ProtoUser has no such field
UserView(u) == [id |-> u.id, name |-> u.name, email |-> u.email]

NoView == UserView(NoUser)

NoToken == [issued |-> FALSE, user_id |-> 0]

\* a token whose subject is not the user it is issued for
generateJWTAnonymous(userID) == [issued |-> TRUE, user_id |-> 0]

\* generateJWT(userID)
generateJWT(userID) == [issued |-> TRUE, user_id |-> userID]

(***************************************************************************)
(* The bearer token.  Instants and durations are in milliseconds since    *)
(* the epoch.  A header is [present, user_id, exp, key]: whether the      *)
(* Authorization header is there, the claims of the token it carries      *)
(* (exp in whole seconds, as time.Time.Unix gives it) and the key that    *)
(* signed it.                                                               *)
(***************************************************************************)
Hour == 3600 * Second

\* time.Time.Unix()
Unix(t) == t \div Second

\* an expiry one hour after issuance
ExpClaimOneHour(now) == Unix(now + Hour)

\* the "exp" claim of generateJWT: time.Now().Add(time.Hour * 24).Unix()
ExpClaim(now) == Unix(now + 24 * Hour)

NoHeader == [present |-> FALSE, user_id |-> 0, exp |-> 0, key |-> ""]

\* "Bearer " + the string generateJWT(userID) returns at the instant now
BearerToken(userID, now) ==
    [present |-> TRUE, user_id |-> generateJWT(userID).user_id,
     exp |-> ExpClaim(now), key |-> "jwtSecret"]

\* a gate that also looks the subject of the token up in the store
ParseValidWhileStored(header, now) ==
    /\ header.key = "jwtSecret" /\ now < header.exp * Second
    /\ HasID(db[1], header.user_id)

\* jwt.Parse(tokenString, keyfunc) at the instant now: err == nil && token.Valid;
\* the validator of jwt/v5 accepts while now.Before(exp), without leeway
ParseValid(header, now) == header.key = "jwtSecret" /\ now < header.exp * Second

\* what AuthMiddleware finds in the Authorization header at the instant now
HeaderState(header, now) ==
    IF ~header.present THEN "missing"
    ELSE IF ParseValid(header, now) THEN "valid"
    ELSE IF header.key = "jwtSecret" THEN "expired"
    ELSE "invalid"

NoResp ==
    [status |-> 0, code |-> "", error |-> "", message |-> "",
     user |-> NoView, users |-> <<>>, token |-> NoToken]

\* c.JSON(status, gin.H{"error": text})
HttpError(status, text) == [NoResp EXCEPT !.status = status, !.error = text]

\* status.Error(code, text)
GrpcError(code, text) == [NoResp EXCEPT !.code = code, !.error = text]

Views(list) == [i \in 1..Len(list) |-> UserView(list[i])]

\* the addresses the validator's "email" rule accepts, among the inputs
WellFormedEmails == {"a@x.com", "b@x.com"}

\* binding of models.SignupRequest: required; required,email; required,min=6
SignupBindOK(args) ==
    /\ args.name # ""
    /\ args.email # "" /\ args.email \in WellFormedEmails
    /\ args.password # <<>> /\ Len(args.password) >= MinPasswordLen

\* binding of models.LoginRequest: required,email; required
LoginBindOK(args) ==
    /\ args.email # "" /\ args.email \in WellFormedEmails
    /\ args.password # <<>>

\* a validation with the rules of the HTTP binding
GrpcCreateValidAsSignup(args) == SignupBindOK(args)

\* the validation of GrpcUserService.CreateUser
GrpcCreateValid(args) == ~(args.name = "" \/ args.email = "" \/ args.password = <<>>)

\* the group without the DELETE route
ProtectedOpsWithoutDelete == {"list", "get", "update"}

\* the routes main registers behind protected.Use(api.AuthMiddleware())
ProtectedOps == {"list", "get", "update", "delete"}

\* a gate that only asks for the header to be there
AuthMiddlewareLax(args) ==
    IF args.auth = "missing"
    THEN HttpError(StatusUnauthorized, "Authorization header required")
    ELSE NoResp

\* AuthMiddleware: the response that aborts the request, NoResp when it passes
AuthMiddleware(args) ==
    IF args.auth = "missing"
    THEN HttpError(StatusUnauthorized, "Authorization header required")
    ELSE IF args.auth # "valid"
    THEN HttpError(StatusUnauthorized, "Invalid token")
    ELSE NoResp

\* what a handler answers before it calls the service, NoResp when it goes on
HttpEarly(op, args) ==
    IF op \in ProtectedOps /\ AuthMiddleware(args) # NoResp THEN AuthMiddleware(args)
    ELSE IF op = "create" /\ ~SignupBindOK(args)
    THEN HttpError(StatusBadRequest, "validation failed")
    ELSE IF op = "login" /\ ~LoginBindOK(args)
    THEN HttpError(StatusBadRequest, "validation failed")
    ELSE IF op \in {"get", "update", "delete"} /\ ~args.idok
    THEN HttpError(StatusBadRequest, "Invalid user ID")
    ELSE NoResp

\* the RPC methods behind a credential check like the HTTP one
GrpcEarlyGated(op, args) ==
    IF op \in ProtectedOps /\ args.auth # "valid"
    THEN GrpcError("Unauthenticated", "authorization required")
    ELSE IF op = "create" /\ ~GrpcCreateValid(args)
    THEN GrpcError("InvalidArgument", "name, email, and password are required")
    ELSE NoResp

\* what an RPC method answers before it calls the service, NoResp when it goes on
GrpcEarly(op, args) ==
    IF op = "create" /\ ~GrpcCreateValid(args)
    THEN GrpcError("InvalidArgument", "name, email, and password are required")
    ELSE NoResp

\* authMiddleware of the original server (package main)
authMiddleware(args) ==
    IF args.auth = "missing"
    THEN HttpError(StatusUnauthorized, "Authorization header required")
    ELSE IF args.auth # "valid"
    THEN HttpError(StatusUnauthorized, "Invalid token")
    ELSE NoResp

\* what an original handler answers before its first data-access call
OrigEarly(op, args) ==
    IF op \in {"list", "get", "update", "delete"} /\ authMiddleware(args) # NoResp
    THEN authMiddleware(args)
    ELSE IF op = "create" /\ ~SignupBindOK(args)
    THEN HttpError(StatusBadRequest, "validation failed")
    ELSE IF op = "login" /\ ~LoginBindOK(args)
    THEN HttpError(StatusBadRequest, "validation failed")
    ELSE IF op \in {"get", "update", "delete"} /\ ~args.idok
    THEN HttpError(StatusBadRequest, "Invalid user ID")
    ELSE NoResp

Early(surface, op, args) ==
    IF surface = "http" THEN HttpEarly(op, args)
    ELSE IF surface = "original" THEN OrigEarly(op, args)
    ELSE GrpcEarly(op, args)

(***************************************************************************)
(* internal/service and the closures of internal/database.                *)
(***************************************************************************)
\* the first data-access call of each service method
FirstOperation(op) ==
    CASE op = "create" -> "create_user"
      [] op = "login"  -> "find_user_by_email"
      [] op = "get"    -> "find_user_by_id"
      [] op = "update" -> "find_user_by_id"
      [] op = "delete" -> "delete_user"
      [] OTHER         -> "get_all_users"

\* UserService.CreateUser, lines 16-26: the struct handed to CreateUserWithRetry
NewUser(args) ==
    [id |-> 0, name |-> args.name, email |-> args.email,
     password |-> GenerateFromPassword(args.password), created |-> ZeroTime]

\* lines 53-58 without the test of the name
ApplyUpdateAlways(user, args) ==
    [user EXCEPT !.name = args.name,
                 !.email = IF args.email # "" THEN args.email ELSE @]

\* UserService.UpdateUser, lines 53-58
ApplyUpdate(user, args) ==
    [user EXCEPT !.name = IF args.name # "" THEN args.name ELSE @,
                 !.email = IF args.email # "" THEN args.email ELSE @]

\* the errors a closure singles out with "don't retry": lines 61, 85, 112, 138
SingledOut(operation, err) ==
    CASE operation \in {"create_user", "update_user"} ->
            Contains(err, "duplicate key") \/ Contains(err, "UNIQUE constraint")
      [] operation \in {"find_user_by_email", "find_user_by_id"} ->
            ErrorsIs(err, "ErrRecordNotFound")
      [] OTHER -> FALSE

\* what the closure returns to ExecuteWithRetry for the store's error err:
\* the singled-out branch logs and returns err, the fall-through returns err
ClosureReturn(operation, err) ==
    IF err # NilErr /\ SingledOut(operation, err) THEN err ELSE err

\* the store call of the closure each ...WithRetry function hands to ExecuteWithRetry
Closure(operation, args, user, d, env) ==
    CASE operation = "create_user"        -> DbCreate(d, user, env)
      [] operation = "find_user_by_email" -> DbFirstByEmail(d, args.email, env)
      [] operation = "find_user_by_id"    -> DbFirstByID(d, args.id, env)
      [] operation = "update_user"        -> DbSave(d, user, env)
      [] operation = "delete_user"        -> DbDelete(d, args.id, env)
      [] OTHER                            -> DbFind(d, env)

\* what the store can do with the statement of each operation
Envs(operation) ==
    IF operation \in {"create_user", "update_user", "delete_user"}
    THEN {"ok", "unavailable", "lost_ack"}
    ELSE IF operation = "get_all_users"
    THEN {"ok", "unavailable"} \cup ScanEnvs
    ELSE {"ok", "unavailable"}

(***************************************************************************)
(* The adapters' answers once the service has returned err.               *)
(***************************************************************************)
\* Login with a "user not found" answer of its own
LoginRespondTelling(args, err, user) ==
    IF err # NilErr
    THEN HttpError(StatusNotFound, "User not found")
    ELSE IF ~CompareHashAndPassword(user.password, args.password)
    THEN HttpError(StatusUnauthorized, "Invalid credentials")
    ELSE [NoResp EXCEPT !.status = StatusOK, !.message = "Login successful",
                        !.user = UserView(user), !.token = generateJWT(user.id)]

\* Login, lines 71-99, once GetUserByEmail has returned err
LoginRespond(args, err, user) ==
    IF err # NilErr
    THEN HttpError(StatusUnauthorized, "Invalid credentials")
    ELSE IF ~CompareHashAndPassword(user.password, args.password)
    THEN HttpError(StatusUnauthorized, "Invalid credentials")
    ELSE [NoResp EXCEPT !.status = StatusOK, !.message = "Login successful",
                        !.user = UserView(user), !.token = generateJWT(user.id)]

\* the store does not answer in time
ErrTimeout == [text |-> <<"context deadline exceeded">>, is |-> {}]

\* err.Error(): the tokens of the message, joined
RECURSIVE JoinText(_)
JoinText(t) ==
    IF Len(t) = 0 THEN ""
    ELSE IF Len(t) = 1 THEN t[1]
    ELSE t[1] \o " " \o JoinText(Tail(t))

ErrorString(err) == JoinText(err.text)

\* database.GetDB().Exec("SELECT 1").Error when the store does env
ProbeError(env) ==
    CASE env = "ok"      -> NilErr
      [] env = "timeout" -> ErrTimeout
      [] OTHER           -> ErrConnRefused

\* metrics.HealthCheckHandler: SELECT 1 against the store, no retry;
\* the 500 body carries "error": err.Error()
HealthCheckHandler(env) ==
    IF ProbeError(env) = NilErr
    THEN [NoResp EXCEPT !.status = StatusOK, !.message = "healthy"]
    ELSE [HttpError(StatusInternalServerError, ErrorString(ProbeError(env))) EXCEPT
            !.message = "unhealthy"]

\* the /metrics route: promhttp.Handler()
MetricsHandler == [NoResp EXCEPT !.status = StatusOK, !.message = "metrics"]

HttpRespond(op, args, err, user, list) ==
    CASE op = "create" ->
            IF err # NilErr
            THEN IF Contains(err, "duplicate key")
                 THEN HttpError(StatusConflict, "Email already exists")
                 ELSE HttpError(StatusInternalServerError, "Failed to create user")
            ELSE [NoResp EXCEPT !.status = StatusCreated,
                                !.message = "User created successfully",
                                !.user = UserView(user), !.token = generateJWT(user.id)]
      [] op = "login" -> LoginRespond(args, err, user)
      [] op = "list" ->
            IF err # NilErr
            THEN HttpError(StatusInternalServerError, "Failed to fetch users")
            ELSE [NoResp EXCEPT !.status = StatusOK, !.users = Views(list)]
      [] op = "get" ->
            IF err # NilErr
            THEN HttpError(StatusNotFound, "User not found")
            ELSE [NoResp EXCEPT !.status = StatusOK, !.user = UserView(user)]
      [] op = "update" ->
            IF err # NilErr
            THEN IF Contains(err, "duplicate key")
                 THEN HttpError(StatusConflict, "Email already exists")
                 ELSE HttpError(StatusInternalServerError, "Failed to update user")
            ELSE [NoResp EXCEPT !.status = StatusOK,
                                !.message = "User updated successfully",
                                !.user = UserView(user)]
      [] OTHER ->
            IF err # NilErr
            THEN HttpError(StatusInternalServerError, "Failed to delete user")
            ELSE [NoResp EXCEPT !.status = StatusOK,
                                !.message = "User deleted successfully"]

GrpcRespond(op, args, err, user, list) ==
    CASE op = "create" ->
            IF err # NilErr
            THEN IF Contains(err, "duplicate key")
                 THEN GrpcError("AlreadyExists", "email already exists")
                 ELSE GrpcError("Internal", "failed to create user")
            ELSE [NoResp EXCEPT !.code = "OK", !.message = "User created successfully",
                                !.user = UserView(user)]
      [] op = "get" ->
            IF err # NilErr
            THEN GrpcError("NotFound", "user not found")
            ELSE [NoResp EXCEPT !.code = "OK", !.message = "User retrieved successfully",
                                !.user = UserView(user)]
      [] op = "update" ->
            IF err # NilErr
            THEN IF Contains(err, "duplicate key")
                 THEN GrpcError("AlreadyExists", "email already exists")
                 ELSE GrpcError("Internal", "failed to update user")
            ELSE [NoResp EXCEPT !.code = "OK", !.message = "User updated successfully",
                                !.user = UserView(user)]
      [] op = "delete" ->
            IF err # NilErr
            THEN GrpcError("Internal", "failed to delete user")
            ELSE [NoResp EXCEPT !.code = "OK", !.message = "User deleted successfully"]
      [] OTHER ->
            IF err # NilErr
            THEN GrpcError("Internal", "failed to list users")
            ELSE [NoResp EXCEPT !.code = "OK", !.users = Views(list)]

Respond(surface, op, args, err, user, list) ==
    IF surface = "http" THEN HttpRespond(op, args, err, user, list)
    ELSE GrpcRespond(op, args, err, user, list)

\* the original handlers signup, login, getUsers, getUser, updateUser and
\* deleteUser once the data-access call operation has returned err
OrigRespond(op, args, operation, err, user, list) ==
    CASE op = "create" ->
            IF err # NilErr
            THEN IF Contains(err, "duplicate key")
                 THEN HttpError(StatusConflict, "Email already exists")
                 ELSE HttpError(StatusInternalServerError, "Failed to create user")
            ELSE [NoResp EXCEPT !.status = StatusCreated,
                                !.message = "User created successfully",
                                !.user = UserView(user), !.token = generateJWT(user.id)]
      [] op = "login" ->
            IF err # NilErr
            THEN HttpError(StatusUnauthorized, "Invalid credentials")
            ELSE IF ~CompareHashAndPassword(user.password, args.password)
            THEN HttpError(StatusUnauthorized, "Invalid credentials")
            ELSE [NoResp EXCEPT !.status = StatusOK, !.message = "Login successful",
                                !.user = UserView(user), !.token = generateJWT(user.id)]
      [] op = "list" ->
            IF err # NilErr
            THEN HttpError(StatusInternalServerError, "Failed to fetch users")
            ELSE [NoResp EXCEPT !.status = StatusOK, !.users = Views(list)]
      [] op = "get" ->
            IF err # NilErr
            THEN HttpError(StatusNotFound, "User not found")
            ELSE [NoResp EXCEPT !.status = StatusOK, !.user = UserView(user)]
      [] op = "update" ->
            IF err # NilErr /\ operation = "find_user_by_id"
            THEN HttpError(StatusNotFound, "User not found")
            ELSE IF err # NilErr
            THEN IF Contains(err, "duplicate key")
                 THEN HttpError(StatusConflict, "Email already exists")
                 ELSE HttpError(StatusInternalServerError, "Failed to update user")
            ELSE [NoResp EXCEPT !.status = StatusOK,
                                !.message = "User updated successfully",
                                !.user = UserView(user)]
      [] OTHER ->
            IF err # NilErr
            THEN HttpError(StatusInternalServerError, "Failed to delete user")
            ELSE [NoResp EXCEPT !.status = StatusOK,
                                !.message = "User deleted successfully"]

\* the answer of request s once its last data-access call has returned
Answer(s) ==
    IF s.surface = "original"
    THEN OrigRespond(s.op, s.args, s.rs.operation, s.rs.result, s.user, s.list)
    ELSE Respond(s.surface, s.op, s.args, s.rs.result, s.user, s.list)

(***************************************************************************)
(* The inputs.                                                             *)
(***************************************************************************)
Names == {"", "Ann", "Bob"}
Emails == {"", "a@x.com", "b@x.com", "ann.x.com"}
Passwords == {<<>>, <<"s", "e", "c", "r", "e", "t">>}
LoginPasswords == Passwords \cup {<<"a", "b", "c">>}
Ids == 0..MaxID
Auths == {"missing", "invalid", "expired", "valid"}
Surfaces == {"http", "grpc"}

NoArgs ==
    [id |-> 0, idok |-> TRUE, name |-> "", email |-> "", password |-> <<>>,
     auth |-> "missing"]

\* the requests of each route or method, the fields it does not read left zero
ArgsOf(surface, op) ==
    LET auths == IF surface = "http" THEN Auths ELSE {"missing"}
        idoks == IF surface = "http" THEN BOOLEAN ELSE {TRUE}
    IN  CASE op = "create" ->
                {[NoArgs EXCEPT !.name = n, !.email = e, !.password = w] :
                    n \in Names, e \in Emails, w \in Passwords}
          [] op = "login" ->
                {[NoArgs EXCEPT !.email = e, !.password = w] :
                    e \in Emails, w \in LoginPasswords}
          [] op = "update" ->
                {[NoArgs EXCEPT !.id = IF k THEN i ELSE 0, !.idok = k, !.name = n,
                                !.email = e, !.auth = a] :
                    i \in Ids, k \in idoks, n \in Names, e \in Emails, a \in auths}
          [] op \in {"get", "delete"} ->
                {[NoArgs EXCEPT !.id = IF k THEN i ELSE 0, !.idok = k, !.auth = a] :
                    i \in Ids, k \in idoks, a \in auths}
          [] OTHER -> {[NoArgs EXCEPT !.auth = a] : a \in auths}

OpsOf(surface) ==
    IF surface = "http"
    THEN {"healthz", "metrics", "create", "login", "list", "get", "update", "delete"}
    ELSE {"create", "list", "get", "update", "delete"}

(***************************************************************************)
(* The state: db[r] is the store of replica r, req[p] the request of slot *)
(* p: pc is "idle", "exec" (inside ExecuteWithRetry, see rs), "probe" (the *)
(* health check's statement is in flight) or "done" (answered, see resp); *)
(* user and list are the handler's variables, pre is the table when the   *)
(* request arrived, cancelled whether the caller has given the request    *)
(* up.                                                                      *)
(***************************************************************************)
Slots == {1, 2}

IdleReq ==
    [pc |-> "idle", surface |-> "", op |-> "", args |-> NoArgs, rs |-> NoExec,
     user |-> NoUser, list |-> <<>>, pre |-> <<>>, resp |-> NoResp,
     cancelled |-> FALSE]

\* the clock and the token in use: now is the instant, ticks counts the steps of
\* the clock, token is the header the client holds, iat the instant it was
\* issued, at the instant it was last presented
ZeroClock == [now |-> 0, ticks |-> 0, token |-> NoHeader, iat |-> 0, at |-> 0]

Init ==
    /\ db = [r \in Slots |-> EmptyDb]
    /\ req = [p \in Slots |-> IdleReq]
    /\ clock = ZeroClock

\* the handler goes on after ExecuteWithRetry has returned
Settle(s) ==
    IF s.rs.status # "returned" THEN s
    ELSE IF s.op = "update" /\ s.rs.operation = "find_user_by_id" /\ s.rs.result = NilErr
    THEN [s EXCEPT !.user = ApplyUpdate(s.user, s.args),
                   !.rs = ExecBegin("update_user", DefaultRetryConfig)]
    ELSE [s EXCEPT !.pc = "done", !.resp = Answer(s)]

\* a request arrives while the table is pre, and runs up to its first persistence call
Started(pre, surface, op, args) ==
    LET early == Early(surface, op, args)
        s0 == [IdleReq EXCEPT !.surface = surface, !.op = op, !.args = args, !.pre = pre]
    IN  IF early # NoResp THEN [s0 EXCEPT !.pc = "done", !.resp = early]
        ELSE IF op = "metrics" THEN [s0 EXCEPT !.pc = "done", !.resp = MetricsHandler]
        ELSE IF op = "healthz" THEN [s0 EXCEPT !.pc = "probe"]
        ELSE Settle([s0 EXCEPT
                !.pc = "exec",
                !.user = IF op = "create" THEN NewUser(args) ELSE NoUser,
                !.rs = ExecBegin(FirstOperation(op), DefaultRetryConfig)])

\* a stamping that renews CreatedAt with every statement that writes the row
StampedAlways(operation, user, now) ==
    IF operation \in {"create_user", "update_user"}
    THEN [user EXCEPT !.created = now]
    ELSE user

\* the struct as db.Create and db.Save send it: Create fills a zero CreatedAt
\* with the current instant, Save sends CreatedAt as it is in the struct
Stamped(operation, user, now) ==
    IF operation = "create_user" /\ user.created = ZeroTime
    THEN [user EXCEPT !.created = now]
    ELSE user

\* one pass of the retry loop of request s: the closure runs against the store d
Invoked(s, d, env) ==
    LET user == Stamped(s.rs.operation, s.user, clock.now)
        res == Closure(s.rs.operation, s.args, user, d, env)
    IN  [db |-> res.db,
         req |-> Settle([s EXCEPT
                    !.rs = ExecAttempt(s.rs, ClosureReturn(s.rs.operation, res.err)),
                    !.user = IF res.err = NilErr THEN res.user ELSE user,
                    !.list = IF res.err = NilErr THEN res.list ELSE @])]

\* the backoff sleep of request s ends
Woken(s, conv) == Settle([s EXCEPT !.rs = ExecWake(s.rs, conv)])

\* an engine under a process-wide lock held across time.Sleep: fn is not called
\* while a run of another request sleeps
RunningAlone(s) ==
    /\ s.pc = "exec" /\ s.rs.status = "running"
    /\ \A p \in Slots : ~(req[p].pc = "exec" /\ req[p].rs.status = "sleeping")

\* the request is inside ExecuteWithRetry and about to call fn; nothing else
\* is waited for
Running(s) == s.pc = "exec" /\ s.rs.status = "running"

Sleeping(s) == s.pc = "exec" /\ s.rs.status = "sleeping"

StartReq(p, r, surface, op, args) ==
    /\ req[p].pc = "idle"
    /\ op = "create" => db[r].nextID <= MaxID
    /\ req' = [req EXCEPT ![p] = Started(db[r].users, surface, op, args)]
    /\ UNCHANGED <<db, clock>>

InvokeReq(p, r, env) ==
    /\ Running(req[p])
    /\ env \in Envs(req[p].rs.operation)
    /\ db' = [db EXCEPT ![r] = Invoked(req[p], db[r], env).db]
    /\ req' = [req EXCEPT ![p] = Invoked(req[p], db[r], env).req]
    /\ UNCHANGED clock

WakeReq(p) ==
    /\ Sleeping(req[p])
    /\ \E conv \in Conversions : req' = [req EXCEPT ![p] = Woken(req[p], conv)]
    /\ UNCHANGED <<db, clock>>

\* the health check's SELECT 1 is answered or fails
ProbeReq(p, env) ==
    /\ req[p].pc = "probe"
    /\ req' = [req EXCEPT ![p].pc = "done", ![p].resp = HealthCheckHandler(env)]
    /\ UNCHANGED <<db, clock>>

\* the answer has been delivered; the slot is free for the next request
FinishReq(p) ==
    /\ req[p].pc = "done"
    /\ req' = [req EXCEPT ![p] = IdleReq]
    /\ UNCHANGED <<db, clock>>

(***************************************************************************)
(* Spec: one request at a time, through either surface, on one store.     *)
(***************************************************************************)
Start ==
    \E surface \in Surfaces : \E op \in OpsOf(surface) : \E args \in ArgsOf(surface, op) :
        StartReq(1, 1, surface, op, args)

Invoke == \E env \in {"ok", "unavailable", "lost_ack"} \cup ScanEnvs : InvokeReq(1, 1, env)

Wake == WakeReq(1)

Probe == \E env \in {"ok", "unavailable", "timeout"} : ProbeReq(1, env)

Finish == FinishReq(1)

Next == Start \/ Invoke \/ Wake \/ Probe \/ Finish

Spec == Init /\ [][Next]_vars

(***************************************************************************)
(* SpecRetry: ExecuteWithRetry on its own, under every policy of Configs, *)
(* with a function fn that returns any of FnErrors at each invocation.     *)
(***************************************************************************)
Configs ==
    {[MaxAttempts |-> m, BaseDelay |-> b * Millisecond, MaxDelay |-> 2 * Second] :
        m \in (-1)..MaxPolicyAttempts, b \in {100, 1500}}

FnErrors == {NilErr, ErrRecordNotFound, ErrDuplicateKey, ErrConnRefused}

OperationNames == {"create_user", "find_user_by_id"}

\* the caller after ExecuteWithRetry has returned
SettleRetry(s) == IF s.rs.status = "returned" THEN [s EXCEPT !.pc = "done"] ELSE s

StartRetry ==
    \E operation \in OperationNames : \E config \in Configs :
        /\ req[1].pc = "idle"
        /\ req' = [req EXCEPT ![1] =
                SettleRetry([IdleReq EXCEPT !.pc = "exec", !.op = "retry",
                                            !.rs = ExecBegin(operation, config)])]
        /\ UNCHANGED <<db, clock>>

InvokeFn ==
    \E err \in FnErrors :
        /\ req[1].pc = "exec" /\ req[1].rs.status = "running"
        /\ req' = [req EXCEPT ![1] = SettleRetry([req[1] EXCEPT !.rs = ExecAttempt(@, err)])]
        /\ UNCHANGED <<db, clock>>

WakeRetry ==
    /\ req[1].pc = "exec" /\ req[1].rs.status = "sleeping"
    /\ \E conv \in Conversions :
            req' = [req EXCEPT ![1] = SettleRetry([req[1] EXCEPT !.rs = ExecWake(@, conv)])]
    /\ UNCHANGED <<db, clock>>

NextRetry == StartRetry \/ InvokeFn \/ WakeRetry \/ Finish

SpecRetry == Init /\ [][NextRetry]_vars

(***************************************************************************)
(* SpecRetryFair: SpecRetry with a caller that may give up while the run  *)
(* is under way (the cancellation of its context, which ExecuteWithRetry  *)
(* does not receive), under the assumption that fn returns and that       *)
(* time.Sleep ends.                                                         *)
(***************************************************************************)
CancelCaller ==
    /\ req[1].pc = "exec" /\ ~req[1].cancelled
    /\ req' = [req EXCEPT ![1].cancelled = TRUE]
    /\ UNCHANGED <<db, clock>>

NextRetryFair == StartRetry \/ InvokeFn \/ WakeRetry \/ CancelCaller \/ Finish

SpecRetryFair ==
    Init /\ [][NextRetryFair]_vars /\ WF_vars(InvokeFn) /\ WF_vars(WakeRetry)

(***************************************************************************)
(* SpecBackoff: a long run of ExecuteWithRetry.  The policy allows        *)
(* MaxLongAttempts attempts, with the base and maximal delay of           *)
(* DefaultRetryConfig or a base delay of 1.5 s; fn fails with a           *)
(* connectivity error or succeeds at each invocation.                      *)
(***************************************************************************)
MaxLongAttempts == 40

BackoffConfigs ==
    {[MaxAttempts |-> MaxLongAttempts, BaseDelay |-> b * Millisecond,
      MaxDelay |-> 2 * Second] : b \in {100, 1500}}

StartBackoff ==
    \E config \in BackoffConfigs :
        /\ req[1].pc = "idle"
        /\ req' = [req EXCEPT ![1] =
                SettleRetry([IdleReq EXCEPT !.pc = "exec", !.op = "retry",
                                            !.rs = ExecBegin("get_all_users", config)])]
        /\ UNCHANGED <<db, clock>>

InvokeTransient ==
    \E err \in {NilErr, ErrConnRefused} :
        /\ req[1].pc = "exec" /\ req[1].rs.status = "running"
        /\ req' = [req EXCEPT ![1] = SettleRetry([req[1] EXCEPT !.rs = ExecAttempt(@, err)])]
        /\ UNCHANGED <<db, clock>>

NextBackoff == StartBackoff \/ InvokeTransient \/ WakeRetry \/ Finish

SpecBackoff == Init /\ [][NextBackoff]_vars

(***************************************************************************)
(* SpecLog: the same run of ExecuteWithRetry under the two loggers that   *)
(* logger.Init sets up.  Slot 1 runs with the development logger (level   *)
(* Debug), slot 2 with the production logger (level Info), under the same *)
(* policy, and fn returns the same at corresponding invocations.           *)
(***************************************************************************)
LogStart ==
    \E operation \in OperationNames : \E config \in Configs :
        /\ req[1].pc = "idle" /\ req[2].pc = "idle"
        /\ req' = [p \in Slots |->
                SettleRetry([IdleReq EXCEPT
                    !.pc = "exec", !.op = "retry",
                    !.rs = [ExecBegin(operation, config) EXCEPT
                                !.level = IF p = 1 THEN DebugLevel ELSE InfoLevel]])]
        /\ UNCHANGED <<db, clock>>

LogInvoke ==
    \E err \in FnErrors :
        /\ Running(req[1]) \/ Running(req[2])
        /\ req' = [p \in Slots |->
                IF Running(req[p])
                THEN SettleRetry([req[p] EXCEPT !.rs = ExecAttempt(@, err)])
                ELSE req[p]]
        /\ UNCHANGED <<db, clock>>

LogWake ==
    /\ Sleeping(req[1]) \/ Sleeping(req[2])
    /\ ~Running(req[1]) /\ ~Running(req[2])
    /\ \E conv \in Conversions :
            req' = [p \in Slots |->
                IF Sleeping(req[p])
                THEN SettleRetry([req[p] EXCEPT !.rs = ExecWake(@, conv)])
                ELSE req[p]]
    /\ UNCHANGED <<db, clock>>

LogFinish ==
    /\ req[1].pc = "done" /\ req[2].pc = "done"
    /\ req' = [p \in Slots |-> IdleReq]
    /\ UNCHANGED <<db, clock>>

NextLog == LogStart \/ LogInvoke \/ LogWake \/ LogFinish

SpecLog == Init /\ [][NextLog]_vars

(***************************************************************************)
(* SpecPair: the two surfaces side by side.  Slot 1 serves the HTTP       *)
(* request on store 1, slot 2 the RPC request with the same inputs on     *)
(* store 2, starting from equal stores, and the two stores do the same    *)
(* thing with corresponding statements.  The HTTP request carries a valid *)
(* credential and a numeric identifier.                                    *)
(***************************************************************************)
PairOps == {"create", "list", "get", "update", "delete"}

PairArgs(op) ==
    {a \in ArgsOf("http", op) : a.idok /\ (op \in ProtectedOps => a.auth = "valid")}

PairStart ==
    \E op \in PairOps : \E args \in PairArgs(op) :
        /\ req[1].pc = "idle" /\ req[2].pc = "idle"
        /\ db[1] = db[2]
        /\ op = "create" => db[1].nextID <= MaxID
        /\ req' = [req EXCEPT ![1] = Started(db[1].users, "http", op, args),
                              ![2] = Started(db[2].users, "grpc", op, args)]
        /\ UNCHANGED <<db, clock>>

PairInvoke ==
    \E env \in {"ok", "unavailable", "lost_ack"} \cup ScanEnvs :
        /\ Running(req[1]) \/ Running(req[2])
        /\ \A p \in Slots : Running(req[p]) => env \in Envs(req[p].rs.operation)
        /\ ~Sleeping(req[1]) /\ ~Sleeping(req[2])
        /\ db' = [p \in Slots |->
                    IF Running(req[p]) THEN Invoked(req[p], db[p], env).db ELSE db[p]]
        /\ req' = [p \in Slots |->
                    IF Running(req[p]) THEN Invoked(req[p], db[p], env).req ELSE req[p]]
        /\ UNCHANGED clock

PairWake ==
    /\ Sleeping(req[1]) \/ Sleeping(req[2])
    /\ \E conv \in Conversions :
            req' = [p \in Slots |-> IF Sleeping(req[p]) THEN Woken(req[p], conv) ELSE req[p]]
    /\ UNCHANGED <<db, clock>>

PairFinish ==
    /\ req[1].pc = "done" /\ req[2].pc = "done"
    /\ req' = [p \in Slots |-> IdleReq]
    /\ UNCHANGED <<db, clock>>

NextPair == PairStart \/ PairInvoke \/ PairWake \/ PairFinish

SpecPair == Init /\ [][NextPair]_vars

(***************************************************************************)
(* SpecRefactor: the refactored HTTP handlers beside the original ones.    *)
(* Slot 1 serves a request with the handlers of internal/api on store 1,  *)
(* slot 2 the same request with the handlers of the original server on    *)
(* store 2, starting from equal stores; the two stores do the same thing  *)
(* with corresponding statements.                                           *)
(***************************************************************************)
RefactorOps == {"create", "login", "list", "get", "update", "delete"}

RefactorStart ==
    \E op \in RefactorOps : \E args \in ArgsOf("http", op) :
        /\ req[1].pc = "idle" /\ req[2].pc = "idle"
        /\ db[1] = db[2]
        /\ op = "create" => db[1].nextID <= MaxID
        /\ req' = [req EXCEPT ![1] = Started(db[1].users, "http", op, args),
                              ![2] = Started(db[2].users, "original", op, args)]
        /\ UNCHANGED <<db, clock>>

NextRefactor == RefactorStart \/ PairInvoke \/ PairWake \/ PairFinish

SpecRefactor == Init /\ [][NextRefactor]_vars

(***************************************************************************)
(* SpecToken: the lifetime of a token.  The clock advances by the steps   *)
(* of TickSteps, at most MaxTicks times; generateJWT issues a token at    *)
(* the current instant; the client presents the token it holds, or one    *)
(* signed with another key, on the protected route GET /users, and the    *)
(* request runs as in Spec.                                                 *)
(***************************************************************************)
MaxTicks == 5

TickSteps == {400 * Millisecond, 600 * Millisecond, 24 * Hour - Second}

Tick ==
    \E d \in TickSteps :
        /\ clock.ticks < MaxTicks
        /\ clock' = [clock EXCEPT !.now = @ + d, !.ticks = @ + 1]
        /\ UNCHANGED <<db, req>>

\* a signup or login succeeds for user userID: generateJWT(user.ID)
IssueToken ==
    \E userID \in 1..MaxID :
        /\ req[1].pc = "idle"
        /\ clock' = [clock EXCEPT !.token = BearerToken(userID, clock.now),
                                  !.iat = clock.now]
        /\ UNCHANGED <<db, req>>

\* GET /users with the token the client holds, or with that token re-signed
PresentToken ==
    \E key \in {"jwtSecret", "otherSecret"} :
        /\ req[1].pc = "idle"
        /\ clock.token.present
        /\ req' = [req EXCEPT ![1] =
                Started(db[1].users, "http", "list",
                        [NoArgs EXCEPT !.auth =
                            HeaderState([clock.token EXCEPT !.key = key], clock.now)])]
        /\ clock' = [clock EXCEPT !.at = clock.now]
        /\ UNCHANGED db

NextToken == Tick \/ IssueToken \/ PresentToken \/ Invoke \/ Wake \/ Finish

SpecToken == Init /\ [][NextToken]_vars

(***************************************************************************)
(* SpecDelete: what follows a delete.  Slot 2 serves a delete, through    *)
(* either surface, and keeps its answer; slot 1 then serves the requests  *)
(* that come after it, one at a time on the same store, until the answer  *)
(* in slot 2 is dropped.  The later requests are the well-formed ones of  *)
(* LaterArgs, the login through the HTTP surface and the others through   *)
(* the RPC surface; the store executes their statements or is unreachable.*)
(***************************************************************************)
LaterOps == {"create", "login", "list", "get", "update"}

LaterArgs(surface, op) ==
    {a \in ArgsOf(surface, op) :
        /\ op \in {"get", "update", "delete"} => (a.idok /\ a.id # 0)
        /\ (surface = "http" /\ op \in ProtectedOps) => a.auth = "valid"
        /\ op = "create" => (SignupBindOK(a) /\ a.name = "Ann")
        /\ op = "login" => (LoginBindOK(a) /\ Len(a.password) >= MinPasswordLen)
        /\ op = "update" => (a.name = "" /\ a.email \in WellFormedEmails)}

DeleteStart ==
    \E surface \in Surfaces : \E args \in LaterArgs(surface, "delete") :
        /\ req[1].pc = "idle"
        /\ StartReq(2, 1, surface, "delete", args)

DeleteInvoke == \E env \in {"ok", "lost_ack"} : InvokeReq(2, 1, env)

DeleteWake == WakeReq(2)

DeleteFinish == req[1].pc = "idle" /\ FinishReq(2)

LaterStart ==
    \E op \in LaterOps :
        \E args \in LaterArgs(IF op = "login" THEN "http" ELSE "grpc", op) :
            /\ req[2].pc = "idle" \/ (req[2].pc = "done" /\ req[2].rs.result = NilErr)
            /\ StartReq(1, 1, IF op = "login" THEN "http" ELSE "grpc", op, args)

LaterInvoke == \E env \in {"ok", "unavailable"} : InvokeReq(1, 1, env)

NextDelete ==
    \/ DeleteStart \/ DeleteInvoke \/ DeleteWake \/ DeleteFinish
    \/ LaterStart \/ LaterInvoke \/ Wake \/ Finish

SpecDelete == Init /\ [][NextDelete]_vars

(***************************************************************************)
(* SpecConc: concurrent writers.  The two slots serve well-formed,        *)
(* authorised create and update requests, through either surface, at the  *)
(* same time on the same store; their persistence calls interleave in     *)
(* every order, each executed atomically by the store, its answer         *)
(* delivered or lost.                                                       *)
(***************************************************************************)
ConcOps == {"create", "update"}

ConcEnvs == {"ok", "lost_ack"}

ConcStart ==
    \E p \in Slots : \E surface \in Surfaces : \E op \in ConcOps :
        \E args \in LaterArgs(surface, op) :
            StartReq(p, 1, surface, op, args)

ConcInvoke == \E p \in Slots : \E env \in ConcEnvs : InvokeReq(p, 1, env)

ConcWake == \E p \in Slots : WakeReq(p)

ConcFinish == \E p \in Slots : FinishReq(p)

NextConc == ConcStart \/ ConcInvoke \/ ConcWake \/ ConcFinish

SpecConc == Init /\ [][NextConc]_vars

(***************************************************************************)
(* SpecUpdate: updates while time passes.  One request at a time, through *)
(* the RPC surface: well-formed creates and the updates of UpdateArgs;     *)
(* the store executes their statements, fails, or loses the answer; the   *)
(* clock advances by one second between requests, MaxSeconds times at     *)
(* most.                                                                    *)
(***************************************************************************)
MaxSeconds == 2

UpdateOps == {"create", "update"}

\* the creates of LaterArgs; the updates of an identifier that leave the name or
\* set it to "Bob" and leave the email or set it to "b@x.com"
UpdateArgs(surface, op) ==
    IF op = "update"
    THEN {a \in ArgsOf(surface, op) :
            /\ a.idok /\ a.id # 0 /\ (surface = "http" => a.auth = "valid")
            /\ a.name \in {"", "Bob"} /\ a.email \in {"", "b@x.com"}}
    ELSE LaterArgs(surface, op)

UpdateStart ==
    \E op \in UpdateOps : \E args \in UpdateArgs("grpc", op) :
        StartReq(1, 1, "grpc", op, args)

UpdateTick ==
    /\ clock.ticks < MaxSeconds
    /\ req[1].pc = "idle"
    /\ clock' = [clock EXCEPT !.now = @ + Second, !.ticks = @ + 1]
    /\ UNCHANGED <<db, req>>

NextUpdate == UpdateStart \/ UpdateTick \/ Invoke \/ Wake \/ Finish

SpecUpdate == Init /\ [][NextUpdate]_vars

(***************************************************************************)
(* SpecIsolation: a request beside a failing one.  Slot 1 serves updates  *)
(* through the RPC surface while the store fails its statements, loses    *)
(* their answers, or executes them; slot 2 serves, at the same time and   *)
(* on the same store, well-formed creates, gets and updates through       *)
(* either surface.                                                          *)
(***************************************************************************)
IsolationOps == {"create", "update"}

IsolationArgs(surface, op) ==
    {a \in LaterArgs(surface, op) : a.id \in {0, 1} /\ (op = "update" => a.email = "b@x.com")}

FailingStart ==
    \E args \in IsolationArgs("grpc", "update") : StartReq(1, 1, "grpc", "update", args)

FailingInvoke == \E env \in {"ok", "lost_ack"} : InvokeReq(1, 1, env)

OtherStart ==
    \E surface \in Surfaces : \E op \in IsolationOps :
        \E args \in IsolationArgs(surface, op) : StartReq(2, 1, surface, op, args)

OtherInvoke == \E env \in {"ok", "unavailable"} : InvokeReq(2, 1, env)

NextIsolation ==
    \/ FailingStart \/ FailingInvoke \/ OtherStart \/ OtherInvoke
    \/ ConcWake \/ ConcFinish

SpecIsolation == Init /\ [][NextIsolation]_vars

(***************************************************************************)
(* SpecRace: concurrent requests on one user.  The two slots serve, at    *)
(* the same time and on the same store, well-formed creates, updates of   *)
(* user 1 that supply only a name or only an email, and deletes of user   *)
(* 1, through the RPC surface; the store executes and answers every       *)
(* statement, each one atomically, in every order.                          *)
(***************************************************************************)
RaceOps == {"create", "update", "delete"}

RaceArgs(op) ==
    IF op = "update"
    THEN {a \in ArgsOf("grpc", op) :
            /\ a.id = 1
            /\ <<a.name, a.email>> \in {<<"Bob", "">>, <<"", "b@x.com">>}}
    ELSE {a \in LaterArgs("grpc", op) : a.id \in {0, 1}}

RaceStart ==
    \E p \in Slots : \E op \in RaceOps : \E args \in RaceArgs(op) :
        StartReq(p, 1, "grpc", op, args)

RaceInvoke == \E p \in Slots : InvokeReq(p, 1, "ok")

NextRace == RaceStart \/ RaceInvoke \/ ConcWake \/ ConcFinish

SpecRace == Init /\ [][NextRace]_vars

(***************************************************************************)
(* SpecGate: a client and its token.  One HTTP request at a time:         *)
(* signups, after which the client may keep the token of the answer, and  *)
(* gets, updates and deletes of any identifier that carry the token the   *)
(* client holds (no header when it holds none).  The store executes every *)
(* statement; between requests the clock advances by a day, MaxSeconds    *)
(* times at most.                                                           *)
(***************************************************************************)
GateOps == {"create", "get", "update", "delete"}

GateSteps == {24 * Hour}

\* the requests of LaterArgs with the header the client sends at this instant
GateArgs(op) ==
    {[a EXCEPT !.auth = IF op \in ProtectedOps
                        THEN HeaderState(clock.token, clock.now)
                        ELSE "missing"] : a \in LaterArgs("http", op)}

GateStart ==
    \E op \in GateOps : \E args \in GateArgs(op) : StartReq(1, 1, "http", op, args)

\* the client keeps the token of the answer to its signup
KeepToken ==
    /\ req[1].pc = "done" /\ req[1].resp.token.issued
    /\ clock.token # BearerToken(req[1].resp.token.user_id, clock.now)
    /\ clock' = [clock EXCEPT
                    !.token = BearerToken(req[1].resp.token.user_id, clock.now),
                    !.iat = clock.now]
    /\ UNCHANGED <<db, req>>

GateTick ==
    \E d \in GateSteps :
        /\ clock.ticks < MaxSeconds
        /\ req[1].pc = "idle"
        /\ clock' = [clock EXCEPT !.now = @ + d, !.ticks = @ + 1]
        /\ UNCHANGED <<db, req>>

GateInvoke == InvokeReq(1, 1, "ok")

NextGate == GateStart \/ KeepToken \/ GateTick \/ GateInvoke \/ Wake \/ Finish

SpecGate == Init /\ [][NextGate]_vars

(***************************************************************************)
(* SpecRpcCreate: the RPC method CreateUser with every combination of the *)
(* names, emails and passwords of the inputs, a password of three         *)
(* characters included; the store executes the insert or is unreachable.  *)
(***************************************************************************)
RpcCreateArgs ==
    {[NoArgs EXCEPT !.name = n, !.email = e, !.password = w] :
        n \in Names, e \in Emails, w \in LoginPasswords}

RpcCreateStart ==
    \E args \in RpcCreateArgs : StartReq(1, 1, "grpc", "create", args)

RpcCreateInvoke == \E env \in {"ok", "unavailable"} : InvokeReq(1, 1, env)

NextRpcCreate == RpcCreateStart \/ RpcCreateInvoke \/ Wake \/ Finish

SpecRpcCreate == Init /\ [][NextRpcCreate]_vars

(***************************************************************************)
(* The vocabulary of the properties.                                       *)
(***************************************************************************)
\* the classification of section 4.2: unique violation and not-found are Terminal
Terminal(err) ==
    Contains(err, "duplicate key") \/ ErrorsIs(err, "ErrRecordNotFound")

Retryable(err) == err # NilErr /\ ~Terminal(err)

\* the surface-independent category of an answer
Outcome(resp) ==
    CASE resp.status = 409 \/ resp.code = "AlreadyExists"   -> "conflict"
      [] resp.status = 404 \/ resp.code = "NotFound"        -> "not_found"
      [] resp.status = 401 \/ resp.code = "Unauthenticated" -> "unauthenticated"
      [] resp.status = 400 \/ resp.code = "InvalidArgument" -> "invalid"
      [] resp.status \in {200, 201} \/ resp.code = "OK"     -> "ok"
      [] OTHER                                              -> "internal"

SeqRows(t) == {t[i] : i \in 1..Len(t)}

FindOperations == {"find_user_by_id", "find_user_by_email"}

\* the lookup that request s ended in looked for a row that table t holds
TargetIn(s, t) ==
    IF s.rs.operation = "find_user_by_id"
    THEN \E u \in SeqRows(t) : u.id = s.args.id
    ELSE \E u \in SeqRows(t) : u.email = s.args.email

\* every persistence call of the current data-access operation was answered
Answered(rs) == \A i \in 1..Len(rs.errs) : rs.errs[i] # ErrConnRefused

(***************************************************************************)
(* C1.  Under every policy with MaxAttempts >= 1: once the first          *)
(* invocation has failed with a Terminal error, ExecuteWithRetry has      *)
(* returned, after exactly one invocation and no sleep.                    *)
(***************************************************************************)
C1_TerminalFirstFailureStops ==
    LET rs == req[1].rs
    IN  (/\ req[1].op = "retry" /\ rs.config.MaxAttempts >= 1
         /\ Len(rs.errs) >= 1 /\ Terminal(rs.errs[1]))
        => (rs.status = "returned" /\ rs.calls = 1 /\ rs.sleeps = <<>>)

(***************************************************************************)
(* C2.  A lookup by identifier or by email of a row the store does not    *)
(* hold, with every persistence call answered, ends in record-not-found   *)
(* after exactly one persistence call.                                     *)
(***************************************************************************)
C2_NotFoundLookupOneCall ==
    LET s == req[1]
    IN  (/\ s.pc = "done" /\ s.rs.operation \in FindOperations
         /\ ~TargetIn(s, s.pre) /\ Answered(s.rs))
        => (ErrorsIs(s.rs.result, "ErrRecordNotFound") /\ s.rs.calls = 1)

(***************************************************************************)
(* C3.  Under every policy with MaxAttempts >= 1: while every invocation  *)
(* has returned a Retryable error there are at most MaxAttempts           *)
(* invocations, and when ExecuteWithRetry returns there were exactly      *)
(* MaxAttempts and the message of the returned error states that count.   *)
(***************************************************************************)
C3_AllRetryableExhausts ==
    LET rs == req[1].rs
    IN  (/\ req[1].op = "retry" /\ rs.config.MaxAttempts >= 1
         /\ \A i \in 1..Len(rs.errs) : Retryable(rs.errs[i]))
        => /\ rs.calls <= rs.config.MaxAttempts
           /\ rs.status = "returned" =>
                /\ rs.calls = rs.config.MaxAttempts
                /\ rs.result # NilErr
                /\ SubSeq(rs.result.text, 3, 5)
                      = <<"failed after", ToString(rs.calls), "attempts:">>

W_C3_Exhausted ==
    LET rs == req[1].rs
    IN  /\ req[1].op = "retry" /\ rs.status = "returned" /\ rs.config.MaxAttempts = 3
        /\ rs.calls = 3 /\ \A i \in 1..3 : rs.errs[i] = ErrConnRefused

(***************************************************************************)
(* C4.  Every data-access operation runs under the policy MaxAttempts = 3,*)
(* BaseDelay = 100 ms, MaxDelay = 2 s and makes at most 3 persistence     *)
(* calls, whatever the store answers.                                      *)
(***************************************************************************)
DataAccessOperations ==
    {"create_user", "find_user_by_id", "find_user_by_email", "update_user",
     "delete_user", "get_all_users"}

C4_AtMostThreeCalls ==
    LET s == req[1]
    IN  s.pc # "idle" /\ s.rs.status # "none"
        => /\ s.rs.operation \in DataAccessOperations
           /\ s.rs.config = [MaxAttempts |-> 3, BaseDelay |-> 100, MaxDelay |-> 2000]
           /\ s.rs.calls <= 3 /\ Len(s.rs.errs) = s.rs.calls

W_C4_ThreeCalls ==
    /\ req[1].pc = "done" /\ req[1].rs.operation = "update_user" /\ req[1].rs.calls = 3
    /\ req[1].rs.errs = <<ErrConnRefused, ErrConnRefused, NilErr>>

(***************************************************************************)
(* C5.  A create whose email a stored user already holds, the store       *)
(* answering the first insert: the answer is conflict on both surfaces,   *)
(* after one persistence call, and the table is as it was.                 *)
(***************************************************************************)
C5_DuplicateCreateRejectedAtOnce ==
    LET s == req[1]
    IN  (/\ s.pc = "done" /\ s.op = "create" /\ s.rs.operation = "create_user"
         /\ \E u \in SeqRows(s.pre) : u.email = s.args.email
         /\ s.rs.errs[1] = ErrDuplicateKey)
        => (Outcome(s.resp) = "conflict" /\ s.rs.calls = 1 /\ db[1].users = s.pre)

(***************************************************************************)
(* C6.  After updateUser(id, name, email) on a stored user, a field       *)
(* supplied empty has its prior value, and when the update succeeded a    *)
(* field supplied non-empty has the supplied value; identifier and digest *)
(* are as before and no other row changed.                                 *)
(***************************************************************************)
C6_PartialUpdate ==
    LET s == req[1]
    IN  (/\ s.pc = "done" /\ s.op = "update"
         /\ s.rs.status = "returned"
         /\ \E u \in SeqRows(s.pre) : u.id = s.args.id)
        => /\ Len(db[1].users) = Len(s.pre)
           /\ \A i \in 1..Len(s.pre) :
                LET old == s.pre[i]
                    cur == db[1].users[i]
                IN  IF old.id # s.args.id THEN cur = old
                    ELSE /\ cur.id = old.id /\ cur.password = old.password
                         /\ s.args.name = "" => cur.name = old.name
                         /\ s.args.email = "" => cur.email = old.email
                         /\ Outcome(s.resp) = "ok" =>
                                /\ s.args.name # "" => cur.name = s.args.name
                                /\ s.args.email # "" => cur.email = s.args.email
                                /\ s.resp.user = UserView(cur)

W_C6_OnlyEmailChanged ==
    LET s == req[1]
    IN  /\ s.pc = "done" /\ s.op = "update" /\ Outcome(s.resp) = "ok"
        /\ s.args.name = "" /\ s.args.email = "b@x.com"
        /\ \E i \in 1..Len(s.pre) :
              /\ s.pre[i].id = s.args.id /\ s.pre[i].email = "a@x.com"
              /\ s.pre[i].name = "Ann"
              /\ db[1].users[i] = [s.pre[i] EXCEPT !.email = "b@x.com"]

(***************************************************************************)
(* C7.  An update that sets a user's email to the email of another stored *)
(* user, the store answering the first save: the answer is conflict on    *)
(* both surfaces and the table is as it was.                               *)
(***************************************************************************)
C7_DuplicateUpdateRejected ==
    LET s == req[1]
    IN  (/\ s.pc = "done" /\ s.op = "update" /\ s.rs.operation = "update_user"
         /\ \E v \in SeqRows(s.pre) : v.id # s.args.id /\ v.email = s.args.email
         /\ s.rs.errs[1] = ErrDuplicateKey)
        => (Outcome(s.resp) = "conflict" /\ db[1].users = s.pre)

(***************************************************************************)
(* C8.  When the lookup of a get or of an update ends in record-not-found *)
(* the answer is not-found (404, codes.NotFound) on both surfaces.         *)
(***************************************************************************)
C8_NotFoundMapped ==
    LET s == req[1]
    IN  (/\ s.pc = "done" /\ s.op \in {"get", "update"}
         /\ s.rs.operation = "find_user_by_id"
         /\ ErrorsIs(s.rs.result, "ErrRecordNotFound"))
        => Outcome(s.resp) = "not_found"

(***************************************************************************)
(* C9.  When every attempt of the lookup of a stored user fails with a    *)
(* connectivity error, get (both surfaces) and login answer the generic   *)
(* internal failure.                                                        *)
(***************************************************************************)
C9_TransientLookupIsInternal ==
    LET s == req[1]
    IN  (/\ s.pc = "done" /\ s.op \in {"get", "login"}
         /\ s.rs.operation \in FindOperations /\ TargetIn(s, s.pre)
         /\ s.rs.calls = 3
         /\ \A i \in 1..3 : s.rs.errs[i] = ErrConnRefused)
        => Outcome(s.resp) = "internal"

(***************************************************************************)
(* C10.  The same request on equal stores through the HTTP surface (slot  *)
(* 1) and the RPC surface (slot 2), the stores behaving alike: once both  *)
(* have answered, the outcomes are the same, the users returned are the   *)
(* same and the stores are equal.                                           *)
(***************************************************************************)
C10_SurfacesAgree ==
    (req[1].pc = "done" /\ req[2].pc = "done")
    => /\ Outcome(req[1].resp) = Outcome(req[2].resp)
       /\ req[1].resp.user = req[2].resp.user
       /\ req[1].resp.users = req[2].resp.users
       /\ db[1] = db[2]

(***************************************************************************)
(* C11.  As stated: while an HTTP request that carries no valid bearer    *)
(* credential is being served, and once it is answered, the users table   *)
(* is as it was when the request arrived.                                  *)
(***************************************************************************)
C11_NoCredentialNoChange ==
    LET s == req[1]
    IN  (s.pc # "idle" /\ s.surface = "http" /\ s.args.auth # "valid")
        => db[1].users = s.pre

(***************************************************************************)
(* C11, amended.  The same for every HTTP request other than the          *)
(* registration POST /signup, which is public and inserts a user.         *)
(***************************************************************************)
C11_NoCredentialNoChangeButSignup ==
    LET s == req[1]
    IN  (s.pc # "idle" /\ s.surface = "http" /\ s.args.auth # "valid"
         /\ s.op # "create")
        => db[1].users = s.pre

W_C11_UpdateRefused ==
    LET s == req[1]
    IN  /\ s.pc = "done" /\ s.surface = "http" /\ s.op = "update"
        /\ s.args.auth = "invalid" /\ s.args.idok /\ s.args.name = "Bob"
        /\ \E u \in SeqRows(s.pre) : u.id = s.args.id /\ u.name = "Ann"
        /\ s.resp.status = 401 /\ db[1].users = s.pre

(***************************************************************************)
(* C12.  A request to GET /users, GET, PUT or DELETE /users/:id whose     *)
(* Authorization header is missing, or carries an invalid or an expired   *)
(* token, is answered 401 at once: no service or persistence call is      *)
(* made and the table is unchanged.  A request to /signup, /login,        *)
(* /healthz or /metrics is never answered by the gate, whatever its       *)
(* header: a well-formed signup or login reaches its persistence call,    *)
(* the health check its probe, and /metrics answers 200.                   *)
(***************************************************************************)
C12_GateOnProtectedRoutesOnly ==
    LET s == req[1]
        gate == {"Authorization header required", "Invalid token"}
    IN  (s.pc # "idle" /\ s.surface = "http") =>
          /\ (s.op \in {"list", "get", "update", "delete"} /\ s.args.auth # "valid")
               => /\ s.pc = "done" /\ s.resp.status = 401 /\ s.resp.error \in gate
                  /\ s.rs.status = "none" /\ s.rs.calls = 0
                  /\ db[1].users = s.pre
          /\ s.op \in {"create", "login", "healthz", "metrics"}
               => /\ s.resp.error \notin gate
                  /\ (s.op = "create" /\ SignupBindOK(s.args)) => s.rs.status # "none"
                  /\ (s.op = "login" /\ LoginBindOK(s.args)) => s.rs.status # "none"
                  /\ s.op = "healthz" =>
                        (s.pc = "probe" \/ s.resp.message \in {"healthy", "unhealthy"})
                  /\ s.op = "metrics" => s.resp.status = 200

W_C12_ExpiredTokenOnDelete ==
    LET s == req[1]
    IN  /\ s.pc = "done" /\ s.surface = "http" /\ s.op = "delete"
        /\ s.args.auth = "expired" /\ s.args.idok
        /\ \E u \in SeqRows(s.pre) : u.id = s.args.id
        /\ s.resp.status = 401 /\ s.rs.calls = 0 /\ db[1].users = s.pre

(***************************************************************************)
(* C13.  No RPC request is answered Unauthenticated; every RPC get,       *)
(* update, delete and list, and every create that passes the field        *)
(* check, reaches its persistence call.  An RPC update or delete of a     *)
(* stored user whose statements the store executes succeeds and changes   *)
(* the table, while the HTTP surface answers the same inputs, which carry *)
(* no credential, with 401.                                                 *)
(***************************************************************************)
C13_RpcHasNoGate ==
    LET s == req[1]
    IN  (s.pc # "idle" /\ s.surface = "grpc") =>
          /\ Outcome(s.resp) # "unauthenticated"
          /\ (s.op # "create" \/ GrpcCreateValid(s.args)) => s.rs.status # "none"
          /\ (/\ s.pc = "done" /\ s.op \in {"update", "delete"}
              /\ s.rs.operation \in {"update_user", "delete_user"}
              /\ s.rs.errs[Len(s.rs.errs)] = NilErr)
               => /\ s.resp.code = "OK"
                  /\ HttpEarly(s.op, s.args).status = 401
                  /\ s.op = "delete" => ~HasID(db[1], s.args.id)
                  /\ s.op = "update" =>
                        \E u \in Rows(db[1]) :
                            /\ u.id = s.args.id
                            /\ s.args.name # "" => u.name = s.args.name
                            /\ s.args.email # "" => u.email = s.args.email

W_C13_RpcDeleteWithoutCredential ==
    LET s == req[1]
    IN  /\ s.pc = "done" /\ s.surface = "grpc" /\ s.op = "delete"
        /\ s.args.auth = "missing" /\ s.resp.code = "OK"
        /\ \E u \in SeqRows(s.pre) : u.id = s.args.id
        /\ ~HasID(db[1], s.args.id)
        /\ HttpEarly(s.op, s.args).status = 401

C15_TokenOnlyOnSuccess ==
    LET s == req[1]
        succeeded ==
            /\ s.surface = "http" /\ s.op \in {"create", "login"}
            /\ s.resp.status \in {200, 201}
    IN  s.pc = "done" =>
          /\ s.resp.token.issued <=> succeeded
          /\ s.resp.token.issued =>
                /\ s.resp.token.user_id = s.resp.user.id
                /\ \E u \in Rows(db[1]) :
                      /\ u.id = s.resp.token.user_id
                      /\ u.email = s.args.email
                      /\ CompareHashAndPassword(u.password, s.args.password)
                /\ s.op = "create" =>
                      \A u \in SeqRows(s.pre) : u.id # s.resp.token.user_id

W_C15_LoginOfSecondUser ==
    LET s == req[1]
    IN  /\ s.pc = "done" /\ s.op = "login" /\ s.resp.status = 200
        /\ s.resp.token = [issued |-> TRUE, user_id |-> 2]
        /\ s.args.email = "b@x.com"

(***************************************************************************)
(* C16.  As stated: a token issued at the instant iat and presented at    *)
(* the instant at is accepted by the gate when at < iat + 24h and         *)
(* rejected with 401 when at > iat + 24h.                                   *)
(***************************************************************************)
C16_TokenValidFor24h ==
    LET s == req[1]
    IN  (s.pc # "idle" /\ s.op = "list" /\ s.args.auth \in {"valid", "expired"}) =>
          /\ clock.at < clock.iat + 24 * Hour
               => (s.args.auth = "valid" /\ s.rs.status # "none" /\ s.resp.status # 401)
          /\ clock.at > clock.iat + 24 * Hour
               => (s.pc = "done" /\ s.resp.status = 401)

(***************************************************************************)
(* C16, amended.  The expiry is kept in whole seconds: the token is       *)
(* accepted at every instant up to iat + 24h - 1s and rejected with 401   *)
(* at every instant after iat + 24h.                                        *)
(***************************************************************************)
C16_TokenValidFor24hToTheSecond ==
    LET s == req[1]
    IN  (s.pc # "idle" /\ s.op = "list" /\ s.args.auth \in {"valid", "expired"}) =>
          /\ clock.at + Second <= clock.iat + 24 * Hour
               => (s.args.auth = "valid" /\ s.rs.status # "none" /\ s.resp.status # 401)
          /\ clock.at > clock.iat + 24 * Hour
               => (s.pc = "done" /\ s.resp.status = 401)

W_C16_AcceptedInLastSecond ==
    LET s == req[1]
    IN  /\ s.pc = "done" /\ s.op = "list" /\ s.resp.status = 200
        /\ clock.iat = 400 /\ clock.at = clock.iat + 24 * Hour - Second

(***************************************************************************)
(* C17.  A delete whose persistence call did not fail answers success,    *)
(* whether or not the store held the identifier; afterwards the table is  *)
(* the table before without that row, hence unchanged when the identifier *)
(* was not there; and deleting the same identifier once more gives the    *)
(* same result and the same table.                                          *)
(***************************************************************************)
C17_DeleteIdempotent ==
    LET s == req[1]
        again == DbDelete(db[1], s.args.id, "ok")
    IN  (/\ s.pc = "done" /\ s.op = "delete" /\ s.rs.operation = "delete_user"
         /\ Answered(s.rs))
        => /\ s.rs.calls = 1 /\ s.rs.result = NilErr /\ Outcome(s.resp) = "ok"
           /\ db[1].users = SelectSeq(s.pre, LAMBDA u : u.id # s.args.id)
           /\ (\A u \in SeqRows(s.pre) : u.id # s.args.id) => db[1].users = s.pre
           /\ ClosureReturn("delete_user", again.err) = s.rs.result
           /\ again.db = db[1]

W_C17_SecondDelete ==
    LET s == req[1]
    IN  /\ s.pc = "done" /\ s.op = "delete" /\ Outcome(s.resp) = "ok"
        /\ s.args.id = 1 /\ db[1].nextID = 3
        /\ Len(s.pre) = 1 /\ s.pre[1].id = 2 /\ db[1].users = s.pre

(***************************************************************************)
(* C18.  Vocabulary: request q is a delete that succeeded on a user the   *)
(* table held; that user; and "u is gone from store d": a lookup of its   *)
(* identifier and of its email end in record-not-found, the list does not *)
(* hold it, and an insert of a user with its email is accepted.            *)
(***************************************************************************)
DeleteSucceeded(q) ==
    /\ q.pc = "done" /\ q.op = "delete" /\ q.rs.result = NilErr
    /\ \E u \in SeqRows(q.pre) : u.id = q.args.id

DeletedUser(q) == CHOOSE u \in SeqRows(q.pre) : u.id = q.args.id

HardGone(d, u) ==
    /\ DbFirstByID(d, u.id, "ok").err = ErrRecordNotFound
    /\ DbFirstByEmail(d, u.email, "ok").err = ErrRecordNotFound
    /\ \A v \in SeqRows(DbFind(d, "ok").list) : v.id # u.id
    /\ DbCreate(d, [u EXCEPT !.id = 0], "ok").err = NilErr

\* what the requests after the delete of u are answered while u is gone
AnsweredAsGone(s, u) ==
    (s.pc = "done" /\ Answered(s.rs)) =>
        /\ (s.op = "get" /\ s.args.id = u.id) => Outcome(s.resp) = "not_found"
        /\ (s.op = "login" /\ s.args.email = u.email)
             => ErrorsIs(s.rs.result, "ErrRecordNotFound")
        /\ s.op = "list" =>
             \A i \in 1..Len(s.resp.users) : s.resp.users[i].id # u.id

\* no user has been created since the delete q was served
NoCreateSince(q, d) == \A v \in Rows(d) : \E w \in SeqRows(q.pre) : w.id = v.id

\* the step is a persistence call of a create
StepIsCreate == Running(req[1]) /\ req[1].rs.operation = "create_user"

\* the step is a persistence call of a create or an update that stores email
StepStores(email) ==
    /\ Running(req[1]) /\ req[1].rs.operation \in {"create_user", "update_user"}
    /\ req[1].user.email = email

\* a create with the email of u, executed by the store, succeeds
RecreateSucceeds(u) ==
    (/\ StepIsCreate /\ req[1].args.email = u.email
     /\ req'[1].rs.errs[Len(req'[1].rs.errs)] # ErrConnRefused)
    => /\ req'[1].pc = "done" /\ Outcome(req'[1].resp) = "ok"
       /\ \E v \in Rows(db'[1]) : v.email = u.email /\ v.id # u.id

(***************************************************************************)
(* C18, as stated.  After a delete has succeeded, and as long as no user  *)
(* has been created since, its user is gone: get, login and list are      *)
(* answered accordingly, and a create with its email succeeds.             *)
(***************************************************************************)
C18_HardDeleteUntilCreate ==
    [][ /\ (DeleteSucceeded(req'[2]) /\ NoCreateSince(req'[2], db'[1]))
             => /\ HardGone(db'[1], DeletedUser(req'[2]))
                /\ AnsweredAsGone(req'[1], DeletedUser(req'[2]))
        /\ (DeleteSucceeded(req[2]) /\ NoCreateSince(req[2], db[1]))
             => RecreateSucceeds(DeletedUser(req[2]))
      ]_vars

(***************************************************************************)
(* C18, amended.  When a delete succeeds its user is gone, and it stays   *)
(* gone over every step that is not a persistence call of a create or of  *)
(* an update that stores its email (an update can give the freed email to *)
(* another user); while it is gone, get, login and list are answered      *)
(* accordingly and a create with its email succeeds.                        *)
(***************************************************************************)
C18_HardDeleteUntilEmailReused ==
    [][ /\ (DeleteSucceeded(req'[2]) /\ ~DeleteSucceeded(req[2]))
             => HardGone(db'[1], DeletedUser(req'[2]))
        /\ (DeleteSucceeded(req[2]) /\ req'[2] = req[2]
             /\ HardGone(db[1], DeletedUser(req[2])))
             => /\ ~StepStores(DeletedUser(req[2]).email)
                     => HardGone(db'[1], DeletedUser(req[2]))
                /\ HardGone(db'[1], DeletedUser(req[2]))
                     => AnsweredAsGone(req'[1], DeletedUser(req[2]))
                /\ RecreateSucceeds(DeletedUser(req[2]))
      ]_vars

W_C18_RecreatedAfterDelete ==
    /\ DeleteSucceeded(req[2]) /\ DeletedUser(req[2]).email = "a@x.com"
    /\ req[1].pc = "done" /\ req[1].op = "create" /\ req[1].args.email = "a@x.com"
    /\ req[1].resp.code = "OK" /\ Len(req[1].pre) = 0
    /\ db[1].users[1].id = 2

(***************************************************************************)
(* C19, as stated.  In every state reached by concurrent creates and      *)
(* updates no two rows of the table have the same email; and of two       *)
(* creates with the same email that are in service at the same time (the  *)
(* answer of neither has been delivered) at most one succeeds, the other, *)
(* when the store answered its calls, being answered conflict (409,       *)
(* AlreadyExists).                                                          *)
(***************************************************************************)
EmailsUnique(d) ==
    \A i, j \in 1..Len(d.users) : i # j => d.users[i].email # d.users[j].email

C19_EmailUniqueUnderConcurrency ==
    /\ EmailsUnique(db[1])
    /\ \A p \in Slots :
          LET s == req[p]
              o == req[3 - p]
          IN  (/\ s.pc = "done" /\ o.pc = "done"
               /\ s.op = "create" /\ o.op = "create"
               /\ s.args.email = o.args.email
               /\ Outcome(s.resp) = "ok")
              => /\ Outcome(o.resp) # "ok"
                 /\ Answered(o.rs) => Outcome(o.resp) = "conflict"

(***************************************************************************)
(* C19, amended.  No two rows of the table have the same email; and a     *)
(* create whose insert is executed while a row holds its email (the row   *)
(* of a concurrent create that succeeded, still with that email) does not *)
(* succeed: the insert is refused as a duplicate, the table is unchanged, *)
(* and the create, when the store answered all its calls, is answered     *)
(* conflict.                                                                *)
(***************************************************************************)
C19_EmailUniqueWhileHeld ==
    [][ /\ EmailsUnique(db'[1])
        /\ \A p \in Slots :
              LET s == req[p]
                  t == req'[p]
              IN  (/\ Running(s) /\ s.rs.operation = "create_user"
                   /\ t.rs.calls = s.rs.calls + 1
                   /\ \E v \in Rows(db[1]) : v.email = s.args.email)
                  => /\ db'[1] = db[1]
                     /\ t.rs.errs[t.rs.calls] = ErrDuplicateKey
                     /\ t.pc = "done" =>
                           /\ Outcome(t.resp) # "ok"
                           /\ Answered(t.rs) => Outcome(t.resp) = "conflict"
      ]_vars

W_C19_ConcurrentSignups ==
    /\ req[1].pc = "done" /\ req[2].pc = "done"
    /\ req[1].op = "create" /\ req[2].op = "create"
    /\ req[1].args.email = "a@x.com" /\ req[2].args.email = "a@x.com"
    /\ req[1].pre = <<>> /\ req[2].pre = <<>>
    /\ req[2].resp.status = 201 /\ req[1].resp.status = 409
    /\ Len(db[1].users) = 1

(***************************************************************************)
(* C20.  The user of every response, and every user of a list, has no     *)
(* field besides identifier, name, email and the timestamps; a token      *)
(* carries the subject only; no stored password is a plaintext a client   *)
(* supplied, and the password of the row a create stored is the bcrypt    *)
(* digest of the plaintext of the request, not the plaintext.              *)
(***************************************************************************)
C20_PasswordNeverDisclosed ==
    LET s == req[1]
        fields == {"id", "name", "email", "created_at", "updated_at"}
    IN  /\ s.pc = "done" =>
              /\ DOMAIN s.resp.user \subseteq fields
              /\ \A i \in 1..Len(s.resp.users) : DOMAIN s.resp.users[i] \subseteq fields
              /\ DOMAIN s.resp.token = {"issued", "user_id"}
        /\ \A u \in Rows(db[1]) : u.password \notin LoginPasswords
        /\ (s.pc = "done" /\ s.op = "create" /\ Outcome(s.resp) = "ok") =>
              \E u \in Rows(db[1]) :
                  /\ u.id = s.resp.user.id
                  /\ u.password # s.args.password
                  /\ CompareHashAndPassword(u.password, s.args.password)

W_C20_LoginAnswer ==
    LET s == req[1]
    IN  /\ s.pc = "done" /\ s.op = "login" /\ s.resp.status = 200
        /\ s.resp.user = [id |-> 1, name |-> "Bob", email |-> "a@x.com"]
        /\ s.user.password = GenerateFromPassword(s.args.password)

(***************************************************************************)
(* C21.  Every answered request of either surface carries, as its error   *)
(* text, nothing or one of the fixed messages the adapters map failures   *)
(* to (MappedMessages), whatever the text of the store's error was; this  *)
(* includes the health endpoint when the store cannot be reached.          *)
(***************************************************************************)
\* the error texts the adapters write themselves; "validation failed" stands for
\* the text of the request binder, which is not a persistence error
MappedMessages ==
    {"Authorization header required", "Invalid token", "validation failed",
     "Invalid user ID", "Invalid credentials", "User not found",
     "Email already exists", "Failed to create user", "Failed to fetch users",
     "Failed to update user", "Failed to delete user",
     "name, email, and password are required", "email already exists",
     "failed to create user", "user not found", "failed to update user",
     "failed to delete user", "failed to list users"}

StoreErrors == {ErrRecordNotFound, ErrDuplicateKey, ErrConnRefused, ErrTimeout}

C21_NoRawPersistenceText ==
    \A p \in Slots :
        req[p].pc = "done" =>
            /\ req[p].resp.error \in MappedMessages \cup {""}
            /\ \A e \in StoreErrors : req[p].resp.error # ErrorString(e)

(***************************************************************************)
(* C22.  For every route, request and store, the refactored handler and   *)
(* the original handler, given the same request on equal stores that      *)
(* behave alike, answer with the same status code and leave equal stores, *)
(* the update of an identifier that is not in the store included.          *)
(***************************************************************************)
C22_RefactorPreservesBehaviour ==
    (req[1].pc = "done" /\ req[2].pc = "done") =>
        /\ req[1].resp.status = req[2].resp.status
        /\ db[1] = db[2]

(***************************************************************************)
(* C23.  A list request that the store answers returns exactly the users  *)
(* in the store, each once, in creation order (the order of the table,    *)
(* which is the order of the identifiers), after any sequence of creates, *)
(* updates and deletes; from an empty store it returns the empty list.    *)
(***************************************************************************)
C23_ListInCreationOrder ==
    LET s == req[1]
    IN  (s.pc = "done" /\ s.op = "list" /\ s.rs.calls > 0 /\ s.rs.result = NilErr)
            => /\ Outcome(s.resp) = "ok"
               /\ s.resp.users = Views(db[1].users)

(***************************************************************************)
(* C24.  Once an update request is answered, with success or with an      *)
(* error, the table has the rows it had when the request arrived, each    *)
(* with the identifier, the password digest and the created timestamp it  *)
(* had, and every row other than the one addressed is as it was.           *)
(***************************************************************************)
C24_UpdateKeepsIdentityFields ==
    LET s == req[1]
    IN  (s.pc = "done" /\ s.op = "update")
            => /\ Len(db[1].users) = Len(s.pre)
               /\ \A i \in 1..Len(s.pre) :
                    LET old == s.pre[i]
                        cur == db[1].users[i]
                    IN  /\ cur.id = old.id
                        /\ cur.password = old.password
                        /\ cur.created = old.created
                        /\ old.id # s.args.id => cur = old

\* user 1, created at the first instant, has been renamed two seconds later,
\* beside user 2 created in between
W_C24_UpdatedLater ==
    LET s == req[1]
    IN  /\ s.pc = "done" /\ s.op = "update" /\ s.args.id = 1
        /\ s.rs.operation = "update_user" /\ s.rs.result = NilErr
        /\ clock.now = 2 * Second
        /\ Len(s.pre) = 2 /\ s.pre[1].created = 0 /\ s.pre[2].created = Second
        /\ s.pre[1].id = 1 /\ s.pre[1].name = "Ann"
        /\ db[1].users[1].name = "Bob"

(***************************************************************************)
(* C26.  Under a policy with BaseDelay = 100 ms and MaxDelay = 2 s the    *)
(* delay slept before attempt 2 is 100 ms, before attempt 3 200 ms,       *)
(* before attempt 4 400 ms, and before every attempt k >= 6 it is 2 s;    *)
(* no delay exceeds MaxDelay and no delay is shorter than the one before. *)
(***************************************************************************)
\* the delay slept before attempt k of the run rs
DelayBefore(rs, k) == rs.sleeps[k - 1]

RECURSIVE MinDelay(_, _, _)
MinDelay(n, baseDelay, maxDelay) ==
    LET d == IF n <= 1 THEN baseDelay ELSE 2 * MinDelay(n - 1, baseDelay, maxDelay)
    IN  IF d > maxDelay THEN maxDelay ELSE d

C25_BackoffSchedule ==
    LET rs == req[1].rs
    IN  req[1].op = "retry"
            => /\ \A n \in 1..Len(rs.sleeps) :
                    (n < rs.config.MaxAttempts /\ Retryable(rs.errs[n]))
                        => rs.sleeps[n] = MinDelay(n, rs.config.BaseDelay, rs.config.MaxDelay)
               /\ rs.status = "sleeping"
                    => (rs.errs[rs.calls] # NilErr /\ rs.calls < rs.config.MaxAttempts)
               /\ (rs.status = "returned" /\ rs.calls >= 1)
                    => Len(rs.sleeps) = rs.calls - 1

(***************************************************************************)
(* C27.  Under every policy: if fn succeeds for the first time at its     *)
(* k-th invocation, all earlier failures being Retryable, the run has     *)
(* returned success, fn has been invoked exactly k times, and the event   *)
(* "Operation succeeded after retry" has been logged if and only if       *)
(* k > 1.                                                                   *)
(***************************************************************************)
\* fn succeeded for the first time at invocation k of the run rs
FirstSuccessAt(rs, k) ==
    /\ k \in 1..Len(rs.errs)
    /\ rs.errs[k] = NilErr
    /\ \A i \in 1..(k - 1) : Retryable(rs.errs[i])

SucceededAfterRetryLogged(rs) ==
    \E i \in 1..Len(rs.events) : rs.events[i][2] = "Operation succeeded after retry"

C27_ReturnsAtFirstSuccess ==
    LET rs == req[1].rs
    IN  req[1].op = "retry"
            => \A k \in 1..MaxPolicyAttempts :
                    FirstSuccessAt(rs, k)
                        => /\ k <= rs.config.MaxAttempts
                           /\ rs.status = "returned" /\ rs.result = NilErr
                           /\ rs.calls = k /\ Len(rs.errs) = k
                           /\ SucceededAfterRetryLogged(rs) <=> k > 1

\* success at the third invocation after two connectivity failures
W_C27_SuccessAtThird ==
    LET rs == req[1].rs
    IN  /\ req[1].op = "retry" /\ req[1].pc = "done"
        /\ rs.errs = <<ErrConnRefused, ErrConnRefused, NilErr>>
        /\ rs.result = NilErr /\ rs.calls = 3
        /\ SucceededAfterRetryLogged(rs)

(***************************************************************************)
(* C28.  Under every policy with MaxAttempts >= 1: a run that has         *)
(* returned an error returns the failure of its last invocation wrapped   *)
(* with the operation name and the number of attempts made, and what      *)
(* callers test of an error, errors.Is against gorm.ErrRecordNotFound and *)
(* the words "duplicate key" in the text, gives for the wrapper what it   *)
(* gives for that last failure.                                            *)
(***************************************************************************)
\* the tokens of err.text from position i on
TextFrom(err, i) == SubSeq(err.text, i, Len(err.text))

C28_ExhaustionWrapsLastError ==
    LET rs == req[1].rs
        last == rs.errs[rs.calls]
    IN  (req[1].op = "retry" /\ rs.status = "returned" /\ rs.result # NilErr
                            /\ rs.config.MaxAttempts >= 1)
            => /\ rs.calls = rs.config.MaxAttempts
               /\ SubSeq(rs.result.text, 1, 5) =
                    <<"operation", rs.operation, "failed after", ToString(rs.calls), "attempts:">>
               /\ TextFrom(rs.result, 6) = last.text
               /\ ErrorsIs(rs.result, "ErrRecordNotFound") <=> ErrorsIs(last, "ErrRecordNotFound")
               /\ Contains(rs.result, "duplicate key") <=> Contains(last, "duplicate key")

\* three failures, the first a connectivity failure and the last record-not-found,
\* which the wrapper still answers to
W_C28_LastIsNotFound ==
    LET rs == req[1].rs
    IN  /\ req[1].op = "retry" /\ req[1].pc = "done"
        /\ rs.errs = <<ErrConnRefused, ErrDuplicateKey, ErrRecordNotFound>>
        /\ ErrorsIs(rs.result, "ErrRecordNotFound")
        /\ ~Contains(rs.result, "duplicate key")
        /\ ~Contains(rs.result, "connection refused")

(***************************************************************************)
(* C29.  In every data-access operation, after every failed invocation    *)
(* that is not the policy's last, the run goes on to another attempt if   *)
(* and only if the failure is Retryable: a unique-constraint violation    *)
(* and a record-not-found end the run at once, every other failure is     *)
(* retried, whatever the operation and the attempt number.                 *)
(***************************************************************************)
\* the run rs went on after its invocation i
WentOnAfter(rs, i) == ~(rs.status = "returned" /\ i = rs.calls)

C29_DecisionByCategoryOnly ==
    LET rs == req[1].rs
    IN  req[1].pc \in {"exec", "done"}
            => \A i \in 1..Len(rs.errs) :
                    (rs.errs[i] # NilErr /\ i < rs.config.MaxAttempts)
                        => (WentOnAfter(rs, i) <=> Retryable(rs.errs[i]))

(***************************************************************************)
(* C30.  Every run of ExecuteWithRetry that has started returns.  Under   *)
(* a policy with MaxAttempts >= 1 it never makes more than MaxAttempts    *)
(* invocations nor more than MaxAttempts - 1 sleeps, and it returns with  *)
(* success, with a Terminal failure, or after MaxAttempts invocations;    *)
(* this holds also when the caller has given up during the run.            *)
(***************************************************************************)
RunWithinPolicy ==
    LET rs == req[1].rs
    IN  (req[1].op = "retry" /\ rs.config.MaxAttempts >= 1)
            => /\ rs.calls <= rs.config.MaxAttempts
               /\ Len(rs.sleeps) <= rs.config.MaxAttempts - 1
               /\ rs.status = "returned"
                    => \/ rs.calls >= 1 /\ rs.errs[rs.calls] = NilErr /\ rs.result = NilErr
                       \/ rs.calls >= 1 /\ Terminal(rs.errs[rs.calls])
                       \/ rs.calls = rs.config.MaxAttempts

C30_RetryTerminates ==
    /\ []RunWithinPolicy
    /\ (req[1].pc = "exec") ~> (req[1].pc = "done")

\* the caller gave up, and the run still made its three invocations and two sleeps
\* before it returned the failure
W_C30_CancelledRunExhausts ==
    LET rs == req[1].rs
    IN  /\ req[1].op = "retry" /\ req[1].pc = "done" /\ req[1].cancelled
        /\ rs.config.MaxAttempts = 3
        /\ rs.errs = <<ErrConnRefused, ErrConnRefused, ErrConnRefused>>
        /\ Len(rs.sleeps) = 2 /\ rs.result # NilErr

(***************************************************************************)
(* C31.  Vocabulary: request s is inside ExecuteWithRetry and about to    *)
(* call fn, or in its backoff sleep, written without Running and Sleeping;*)
(* and the next step of slot q can be taken: a request can arrive on      *)
(* either surface when the slot is idle, the persistence call can be      *)
(* made and be executed by the store, the sleep can end, the answer can   *)
(* be delivered.                                                            *)
(***************************************************************************)
AboutToCall(s) == s.pc = "exec" /\ s.rs.status = "running"

InBackoff(s) == s.pc = "exec" /\ s.rs.status = "sleeping"

\* an update of user 1 with a valid credential
ArrivingUpdate(surface) ==
    [NoArgs EXCEPT !.id = 1, !.email = "b@x.com",
                   !.auth = IF surface = "http" THEN "valid" ELSE "missing"]

CanProceed(q) ==
    /\ req[q].pc = "idle" =>
          \A surface \in Surfaces :
              ENABLED StartReq(q, 1, surface, "update", ArrivingUpdate(surface))
    /\ AboutToCall(req[q]) =>
          \A env \in {"ok", "unavailable"} : ENABLED InvokeReq(q, 1, env)
    /\ InBackoff(req[q]) => ENABLED WakeReq(q)
    /\ req[q].pc = "done" => ENABLED FinishReq(q)

(***************************************************************************)
(* C31.  While a request is in a backoff sleep, or between two failing    *)
(* persistence calls, the request of the other slot can take its next     *)
(* step, whatever that step is: arrive on either surface, make its        *)
(* persistence call, end its own sleep, deliver its answer.  No request   *)
(* waits for another one.                                                   *)
(***************************************************************************)
C31_BackoffIsolation ==
    \A p \in Slots : \A q \in Slots \ {p} :
        (InBackoff(req[p]) \/ (AboutToCall(req[p]) /\ req[p].rs.calls >= 1))
        => CanProceed(q)

\* slot 1 is in the first sleep of its save, which the store executed; slot 2
\* arrived after that save, made its calls and has its answer
W_C31_ServedDuringSleep ==
    /\ InBackoff(req[1]) /\ req[1].rs.operation = "update_user"
    /\ req[1].rs.calls = 1 /\ req[1].rs.sleeps = <<>>
    /\ req[1].args.email = "b@x.com"
    /\ req[2].pc = "done" /\ req[2].op = "update" /\ Outcome(req[2].resp) = "ok"
    /\ req[2].rs.calls = 1
    /\ \E u \in SeqRows(req[2].pre) : u.id = req[1].args.id /\ u.email = "b@x.com"
    /\ \E u \in SeqRows(req[1].pre) : u.id = req[1].args.id /\ u.email = "a@x.com"

(***************************************************************************)
(* C32.  Vocabulary: the outcome an entry carries, "none" for the entry   *)
(* written before fn is called; the entries of a run that carry an        *)
(* outcome and those that carry none; what the two runs of SpecLog share. *)
(***************************************************************************)
OutcomeIn(entry) ==
    CASE entry[2] = "Executing operation"             -> "none"
      [] entry[2] = "Operation succeeded after retry" -> "success"
      [] OTHER                                        -> "failure"

OutcomeOfCall(err) == IF err = NilErr THEN "success" ELSE "failure"

OutcomeEntries(rs) == SelectSeq(rs.events, LAMBDA e : OutcomeIn(e) # "none")

AttemptEntries(rs) == SelectSeq(rs.events, LAMBDA e : OutcomeIn(e) = "none")

\* the entries t are about the attempts 1..Len(t) of the operation, in order
NumberedInOrder(rs, t) ==
    \A i \in 1..Len(t) : t[i][1] = i /\ t[i][3] = rs.operation

SameControlFlow ==
    /\ req[1].pc = req[2].pc
    /\ req[1].rs.status = req[2].rs.status
    /\ req[1].rs.attempt = req[2].rs.attempt
    /\ req[1].rs.calls = req[2].rs.calls
    /\ req[1].rs.errs = req[2].rs.errs
    /\ req[1].rs.sleeps = req[2].rs.sleeps
    /\ req[1].rs.result = req[2].rs.result

(***************************************************************************)
(* C32, as stated.  Under either logger a run with k invocations has      *)
(* written exactly k entries, the i-th carrying the operation name, the   *)
(* attempt number i and the outcome of the i-th invocation; and the two   *)
(* runs make the same invocations and sleeps and return the same.          *)
(***************************************************************************)
C32_OneEventPerAttempt ==
    /\ \A p \in Slots :
          LET rs == req[p].rs
          IN  req[p].op = "retry" =>
                /\ Len(rs.events) = rs.calls
                /\ NumberedInOrder(rs, rs.events)
                /\ \A i \in 1..Len(rs.events) :
                      i <= rs.calls /\ OutcomeIn(rs.events[i]) = OutcomeOfCall(rs.errs[i])
    /\ SameControlFlow

(***************************************************************************)
(* C32, amended.  A run with k invocations has written one entry with an  *)
(* outcome per attempt, except that a success at the first attempt writes *)
(* none: the entries carry the operation name, the attempt numbers in     *)
(* order and the outcome of that attempt's invocation.  The development   *)
(* logger has written, before each of them, one more entry per attempt    *)
(* that carries the operation name and the attempt number and no outcome; *)
(* the production logger has written no other entry.  The two runs make   *)
(* the same invocations and sleeps and return the same.                    *)
(***************************************************************************)
C32_OneOutcomeEntryPerAttempt ==
    /\ \A p \in Slots :
          LET rs == req[p].rs
              out == OutcomeEntries(rs)
              att == AttemptEntries(rs)
          IN  req[p].op = "retry" =>
                /\ Len(out) = IF rs.calls >= 1 /\ rs.errs[1] = NilErr THEN 0 ELSE rs.calls
                /\ NumberedInOrder(rs, out)
                /\ \A i \in 1..Len(out) : OutcomeIn(out[i]) = OutcomeOfCall(rs.errs[i])
                /\ Len(att) = IF rs.level = DebugLevel THEN rs.calls ELSE 0
                /\ NumberedInOrder(rs, att)
                /\ \A i \in 1..Len(rs.events) : \A j \in i..Len(rs.events) :
                      /\ rs.events[i][1] <= rs.events[j][1]
                      /\ (rs.events[i][1] = rs.events[j][1] /\ i < j)
                            => (OutcomeIn(rs.events[i]) = "none"
                                /\ OutcomeIn(rs.events[j]) # "none")
    /\ SameControlFlow

\* a run that succeeded at its third invocation: six entries of the development
\* logger, three of the production logger
W_C32_ThreeAttemptsLogged ==
    /\ req[1].op = "retry" /\ req[1].pc = "done" /\ req[1].rs.result = NilErr
    /\ req[1].rs.errs = <<ErrConnRefused, ErrDuplicateKey, NilErr>>
    /\ Len(req[1].rs.events) = 6 /\ Len(req[2].rs.events) = 3
    /\ req[2].rs.events[3] = <<3, "Operation succeeded after retry", req[2].rs.operation>>
    /\ req[1].rs.sleeps = <<100, 200>> /\ req[2].rs.sleeps = <<100, 200>>

(***************************************************************************)
(* C33.  Vocabulary: the rows of store d that the create request s added. *)
(***************************************************************************)
AddedBy(s, d) ==
    {u \in Rows(d) : u.email = s.args.email /\ \A v \in SeqRows(s.pre) : v.id # u.id}

(***************************************************************************)
(* C33.  A create adds at most one row, whatever the store does with its  *)
(* inserts; and when the store has answered its last insert, a create     *)
(* that added a row is answered with success, not with conflict or        *)
(* failure.                                                                  *)
(***************************************************************************)
C33_CreateErrorMeansNoUser ==
    LET s == req[1]
    IN  (s.op = "create" /\ s.rs.operation = "create_user")
        => /\ Cardinality(AddedBy(s, db[1])) <= 1
           /\ Len(db[1].users) <= Len(s.pre) + 1
           /\ (/\ s.pc = "done" /\ AddedBy(s, db[1]) # {}
               /\ s.rs.errs[s.rs.calls] # ErrConnRefused)
              => Outcome(s.resp) = "ok"

(***************************************************************************)
(* C34.  Two updates of the same stored user, one supplying only a name   *)
(* and the other only an email, both answered with success: the stored    *)
(* user has the name of the one and the email of the other.                *)
(***************************************************************************)
C34_DisjointUpdatesBothTakeEffect ==
    \A p \in Slots : \A q \in Slots \ {p} :
        (/\ req[p].pc = "done" /\ req[p].op = "update" /\ Outcome(req[p].resp) = "ok"
         /\ req[q].pc = "done" /\ req[q].op = "update" /\ Outcome(req[q].resp) = "ok"
         /\ req[p].args.id = req[q].args.id
         /\ req[p].args.name # "" /\ req[p].args.email = ""
         /\ req[q].args.name = "" /\ req[q].args.email # "")
        => \E u \in Rows(db[1]) :
              /\ u.id = req[p].args.id
              /\ u.name = req[p].args.name
              /\ u.email = req[q].args.email

(***************************************************************************)
(* C35.  Once a delete of a stored user has been answered with success    *)
(* and no row has its identifier, no step brings a row with that          *)
(* identifier back.                                                         *)
(***************************************************************************)
C35_DeletedNeverReappears ==
    [][ \A q \in Slots :
          (DeleteSucceeded(req[q]) /\ ~HasID(db[1], req[q].args.id))
          => ~HasID(db'[1], req[q].args.id) ]_vars

(***************************************************************************)
(* C36.  Vocabulary: the token the client holds is signed with the        *)
(* server's key and has not expired; the gate has refused request s.       *)
(***************************************************************************)
SignedAndUnexpired ==
    /\ clock.token.present /\ clock.token.key = "jwtSecret"
    /\ clock.now < clock.token.exp * Second

RefusedByGate(s) ==
    /\ s.pc = "done" /\ s.rs.status = "none"
    /\ s.resp.status = StatusUnauthorized

(***************************************************************************)
(* C36.  A get, update or delete through the HTTP surface passes the gate *)
(* exactly when the token it carries is signed and unexpired, whether or  *)
(* not the user the token was issued to is stored and whichever           *)
(* identifier the request names; and an update or delete that passed      *)
(* takes effect on the user it names.                                       *)
(***************************************************************************)
C36_GateDependsOnTokenOnly ==
    LET s == req[1]
    IN  (s.pc # "idle" /\ s.surface = "http" /\ s.op \in {"get", "update", "delete"})
        => /\ RefusedByGate(s) <=> ~SignedAndUnexpired
           /\ (s.pc = "done" /\ SignedAndUnexpired) =>
                /\ s.op = "delete" =>
                      (Outcome(s.resp) = "ok" /\ ~HasID(db[1], s.args.id))
                /\ (s.op = "update" /\ HasID(db[1], s.args.id)
                        /\ Outcome(s.resp) = "ok")
                      => RowByID(db[1], s.args.id).email = s.args.email

\* the token of user 1, who is no longer stored, has changed the email of user 2
W_C36_TokenOfDeletedUser ==
    LET s == req[1]
    IN  /\ s.pc = "done" /\ s.op = "update" /\ Outcome(s.resp) = "ok"
        /\ clock.token.user_id = 1 /\ SignedAndUnexpired
        /\ ~HasID(db[1], 1) /\ ~(\E u \in SeqRows(s.pre) : u.id = 1)
        /\ s.args.id = 2 /\ s.args.email = "b@x.com"
        /\ \E u \in SeqRows(s.pre) : u.id = 2 /\ u.email = "a@x.com"
        /\ RowByID(db[1], 2).email = "b@x.com"

(***************************************************************************)
(* C37.  An RPC CreateUser with an empty name, email or password is       *)
(* answered InvalidArgument without a call of the service or the store,   *)
(* the table being as it was; every other RPC CreateUser, whatever the    *)
(* length of its password and the form of its email, is not answered      *)
(* InvalidArgument and has called createUser with its name, email and the *)
(* digest of its password.                                                  *)
(***************************************************************************)
C37_RpcCreateValidation ==
    LET s == req[1]
    IN  (s.pc # "idle" /\ s.surface = "grpc" /\ s.op = "create")
        => IF s.args.name = "" \/ s.args.email = "" \/ s.args.password = <<>>
           THEN /\ s.pc = "done" /\ s.resp.code = "InvalidArgument"
                /\ s.rs.status = "none" /\ s.rs.calls = 0
                /\ db[1].users = s.pre
           ELSE /\ s.resp.code # "InvalidArgument"
                /\ s.rs.status # "none" /\ s.rs.operation = "create_user"
                /\ s.user.name = s.args.name /\ s.user.email = s.args.email
                /\ s.user.password = GenerateFromPassword(s.args.password)

\* a user with a password of three characters and a malformed email is stored
W_C37_ShortPasswordStored ==
    LET s == req[1]
    IN  /\ s.pc = "done" /\ s.surface = "grpc" /\ s.op = "create"
        /\ s.resp.code = "OK"
        /\ Len(s.args.password) = 3 /\ s.args.email = "ann.x.com"
        /\ \E u \in Rows(db[1]) :
              u.email = "ann.x.com" /\ u.password = GenerateFromPassword(s.args.password)

(***************************************************************************)
(* C38.  Under every policy, a run of ExecuteWithRetry that has returned  *)
(* has invoked fn at least once, and an error it returns wraps the        *)
(* non-nil error of its last invocation.                                    *)
(***************************************************************************)
C38_InvokesAtLeastOnce ==
    LET rs == req[1].rs
    IN  (req[1].op = "retry" /\ rs.status = "returned")
        => /\ rs.calls >= 1
           /\ rs.result # NilErr =>
                /\ rs.lastErr # NilErr
                /\ rs.lastErr = rs.errs[rs.calls]
                /\ TextFrom(rs.result, 6) = rs.lastErr.text

====
